---- MODULE Spec2Model ----
(***************************************************************************)
(* Model of the merge-conflict store of gui-git-editor (useMergeStore).    *)
(*                                                                         *)
(* A text is modelled by the sequence of its lines, i.e. by what           *)
(* String.split("\n") returns for it: a text is a NON-EMPTY sequence of    *)
(* lines, the empty string is <<"">>, and a text ending in a newline ends  *)
(* with an empty line.  Array.join("\n") is JoinLines: it maps the empty   *)
(* array to the empty string <<"">> and any other array to itself.         *)
(***************************************************************************)
EXTENDS Integers, Sequences, FiniteSets, TLC

\* ------------------------------------------------------------------------
\* Bounds of the model
\* ------------------------------------------------------------------------

\* Largest length of the conflicts list a reload may install.
MaxConflicts == 3

\* Largest number of texts loaded (initMerge and reload together) in one run.
MaxLoads == 2

\* Largest number of lines of the document.
MaxLines == 10

\* ------------------------------------------------------------------------
\* Texts and lines
\* ------------------------------------------------------------------------

Null == <<>>

NullPath == "null"

MergedPath == "merged.txt"

EmptyText == <<"">>

OpenLocal == "<<<<<<< LOCAL"

OpenHead == "<<<<<<< HEAD"

BaseMarker == "||||||| BASE"

Separator == "======="

CloseRemote == ">>>>>>> REMOTE"

CloseFeature == ">>>>>>> feature"

IsOpenMarker(l) == l \in {OpenLocal, OpenHead}

IsBaseMarker(l) == l = BaseMarker

IsSeparator(l) == l = Separator

IsCloseMarker(l) == l \in {CloseRemote, CloseFeature}

IsMarker(l) == IsOpenMarker(l) \/ IsBaseMarker(l) \/ IsSeparator(l) \/ IsCloseMarker(l)

\* String.split("\n"): a text is already held as its lines.
Split(text) == text

\* Array.join("\n") of an array of single lines.
JoinLines(arr) == IF arr = <<>> THEN EmptyText ELSE arr

\* Array.slice(from, to) with 0-based from (inclusive) and to (exclusive),
\* both clamped to the array as JavaScript does.
Slice(arr, from, to) ==
    LET hi == IF to > Len(arr) THEN Len(arr) ELSE to
    IN  IF from >= hi THEN <<>> ELSE SubSeq(arr, from + 1, hi)

\* ------------------------------------------------------------------------
\* ConflictParser (backend command parse_conflicts)
\* ------------------------------------------------------------------------

FirstId == 0

NewRegion(id, start) ==
    [id |-> id, startLine |-> start, endLine |-> start,
     localContent |-> EmptyText, baseContent |-> Null,
     remoteContent |-> EmptyText, resolved |-> FALSE]

RECURSIVE ParseFrom(_, _, _, _, _, _)
\* lines: the text; i: 0-based line to read; st: "text", "local", "base" or
\* "remote"; cur: the region being read; from: first line of the side being
\* read; acc: the regions read so far.
ParseFrom(lines, i, st, cur, from, acc) ==
    IF i >= Len(lines)
    THEN IF st = "text" THEN [ok |-> TRUE, conflicts |-> acc]
                        ELSE [ok |-> FALSE, conflicts |-> <<>>]
    ELSE LET l == lines[i + 1] IN
         CASE st = "text" ->
                IF IsOpenMarker(l)
                THEN ParseFrom(lines, i + 1, "local",
                               NewRegion(FirstId + Len(acc), i), i + 1, acc)
                ELSE ParseFrom(lines, i + 1, "text", cur, from, acc)
           [] st = "local" ->
                IF IsBaseMarker(l)
                THEN ParseFrom(lines, i + 1, "base",
                        [cur EXCEPT !.localContent = JoinLines(Slice(lines, from, i))],
                        i + 1, acc)
                ELSE IF IsSeparator(l)
                THEN ParseFrom(lines, i + 1, "remote",
                        [cur EXCEPT !.localContent = JoinLines(Slice(lines, from, i))],
                        i + 1, acc)
                ELSE IF IsMarker(l)
                THEN [ok |-> FALSE, conflicts |-> <<>>]
                ELSE ParseFrom(lines, i + 1, "local", cur, from, acc)
           [] st = "base" ->
                IF IsSeparator(l)
                THEN ParseFrom(lines, i + 1, "remote",
                        [cur EXCEPT !.baseContent = JoinLines(Slice(lines, from, i))],
                        i + 1, acc)
                ELSE IF IsMarker(l)
                THEN [ok |-> FALSE, conflicts |-> <<>>]
                ELSE ParseFrom(lines, i + 1, "base", cur, from, acc)
           [] OTHER ->
                IF IsCloseMarker(l)
                THEN ParseFrom(lines, i + 1, "text", cur, from,
                        Append(acc,
                          [cur EXCEPT !.remoteContent = JoinLines(Slice(lines, from, i)),
                                      !.endLine = i]))
                ELSE IF IsMarker(l)
                THEN [ok |-> FALSE, conflicts |-> <<>>]
                ELSE ParseFrom(lines, i + 1, "remote", cur, from, acc)

\* parse whose count is the number of lines read.
ParseConflictsCountingLines(text) ==
    LET r == ParseFrom(Split(text), 0, "text", NewRegion(FirstId, 0), 0, <<>>)
    IN  [ok |-> r.ok, conflicts |-> r.conflicts,
         hasConflicts |-> Len(r.conflicts) > 0,
         totalConflicts |-> Len(Split(text))]

\* parse that answers an empty list where it should fail.
ParseConflictsLenient(text) ==
    LET r == ParseFrom(Split(text), 0, "text", NewRegion(FirstId, 0), 0, <<>>)
    IN  [ok |-> TRUE, conflicts |-> r.conflicts,
         hasConflicts |-> Len(r.conflicts) > 0,
         totalConflicts |-> Len(r.conflicts)]

\* parse(text) -> { conflicts, hasConflicts, totalConflicts } or a ParseError.
ParseConflicts(text) ==
    LET r == ParseFrom(Split(text), 0, "text", NewRegion(FirstId, 0), 0, <<>>)
    IN  [ok |-> r.ok, conflicts |-> r.conflicts,
         hasConflicts |-> Len(r.conflicts) > 0,
         totalConflicts |-> Len(r.conflicts)]

\* No text parsed yet.
NotParsed == [ok |-> FALSE, conflicts |-> <<>>, hasConflicts |-> FALSE, totalConflicts |-> -1]

\* The texts handed to the parser on its own: every text of at most
\* MaxTextLen lines, each a plain line or one of the four marker lines.
MaxTextLen == 4

ParseLines == {"x", OpenLocal, BaseMarker, Separator, CloseRemote}

ParseTexts == UNION {[1..n -> ParseLines] : n \in 1..MaxTextLen}

\* ------------------------------------------------------------------------
\* Files the environment can hold at the merged path, and hand edits
\* ------------------------------------------------------------------------

\* Scenario A: one two-way region, trailing newline.
DocA == <<"a", OpenLocal, "X", Separator, "Y", CloseRemote, "b", "">>

\* Two sequential two-way regions with the labels LOCAL and REMOTE; the
\* remote side of the second one is empty.
DocTwo == <<OpenLocal, "X", Separator, "Y", CloseRemote, "m",
            OpenLocal, "P", Separator, CloseRemote>>

\* One three-way region, both sides empty, other labels, trailing newline.
DocBase == <<OpenHead, BaseMarker, "O", Separator, CloseFeature, "">>

\* The local side's text also stands before the region.
DocDup == <<"X", OpenLocal, "X", Separator, "Y", CloseRemote>>

\* Three sequential two-way regions; only the second has a non-empty side.
DocThree == <<OpenLocal, Separator, CloseRemote,
              OpenLocal, "Q", Separator, CloseRemote,
              OpenLocal, Separator, CloseRemote>>

\* One two-way region whose local side is empty, between a line and the
\* trailing newline.
DocEmptySide == <<"a", OpenLocal, Separator, "Y", CloseRemote, "">>

\* No marker at all.
DocPlain == <<"a", "b", "">>

\* An opening marker without its closing marker.
DocBad == <<"a", OpenLocal, "X">>

\* The LOCAL and REMOTE files that come with each merged file: the text with
\* every marker block replaced by the lines of that side.
LocalFile(text) ==
    CASE text = DocA -> <<"a", "X", "b", "">>
      [] text = DocTwo -> <<"X", "m", "P">>
      [] text = DocBase -> EmptyText
      [] text = DocDup -> <<"X", "X">>
      [] text = DocThree -> <<"Q">>
      [] text = DocEmptySide -> <<"a", "">>
      [] OTHER -> text

RemoteFile(text) ==
    CASE text = DocA -> <<"a", "Y", "b", "">>
      [] text = DocTwo -> <<"Y", "m">>
      [] text = DocBase -> EmptyText
      [] text = DocDup -> <<"X", "Y">>
      [] text = DocThree -> EmptyText
      [] text = DocEmptySide -> <<"a", "Y", "">>
      [] OTHER -> text

\* The merged files initMerge may be given.
Docs == {DocA, DocTwo, DocBase, DocDup, DocPlain, DocBad}

\* What another program may have left at the merged path before a reload.
ExternalDocs == {DocPlain, DocBad}

\* What the user may type over the whole document.
EditTexts == {<<"a", "Z", "b", "">>}

\* Ids a caller may pass (the last one is never assigned by the parser here).
Ids == 0..2

NoError == "null"

\* ------------------------------------------------------------------------
\* State of useMergeStore; the number of texts loaded so far; a record of the
\* calls made since the last load (trip), kept for the round-trip property;
\* the load requests awaiting their result (io); and the store's isLoading
\* ------------------------------------------------------------------------

VARIABLES localContent, remoteContent, mergedContent, mergedPath, conflicts,
          currentConflictIndex, allResolved, error, isDirty,
          resolvedReplacements, loads, trip, io, isLoading,
          parseInput, parseOutput,
          entries, selectedEntryId, past, future, returned, lastCall,
          subject, body, originalSubject, originalBody, commitIsDirty,
          commitIsLoading, commitError, commitPending,
          isSaving, saving, disk, exitCode, showWarning,
          selectedFile, diffContent, isLoadingDiff, diffPending, diffRequests,
          diffLatest

storeVars == <<localContent, remoteContent, mergedContent, mergedPath, conflicts,
               currentConflictIndex, allResolved, error, isDirty,
               resolvedReplacements>>

vars == <<localContent, remoteContent, mergedContent, mergedPath, conflicts,
          currentConflictIndex, allResolved, error, isDirty,
          resolvedReplacements, loads, trip, io, isLoading,
          parseInput, parseOutput,
          entries, selectedEntryId, past, future, returned, lastCall,
          subject, body, originalSubject, originalBody, commitIsDirty,
          commitIsLoading, commitError, commitPending,
          isSaving, saving, disk, exitCode, showWarning,
          selectedFile, diffContent, isLoadingDiff, diffPending, diffRequests,
          diffLatest>>

\* What the merge store's calls never touch: the text handed to the parser on
\* its own and its result.
parseVars == <<parseInput, parseOutput>>

\* useRebaseStore's entries and selection; useHistoryStore's past and future;
\* what the last undo() or redo() returned; and, when the history store is
\* driven directly, a record of the last call with the past and future it
\* found (lastCall).
rebaseVars == <<entries, selectedEntryId>>

historyVars == <<past, future, returned, lastCall>>

\* useCommitStore: the message being edited, the message as parsed, its own
\* isDirty, isLoading and error, and the parseCommitMsg calls awaiting their
\* result (commitPending).
commitVars == <<subject, body, originalSubject, originalBody, commitIsDirty,
                commitIsLoading, commitError, commitPending>>

\* The merge store's isSaving, the writeFile calls awaiting their result
\* (saving), the text of the merged file as last read or written (disk), the
\* code the process exited with (exitCode, empty while it runs) and
\* MergeActionBar's showWarning.
saveVars == <<isSaving, saving, disk, exitCode, showWarning>>

\* useCommitDiffStore (useStagingStore): the selected file, the diff shown,
\* isLoadingDiff, the diff requests awaiting their answer (diffPending), the
\* number of selectFile calls made (diffRequests) and what the newest call
\* was answered (diffLatest, empty until then).
diffVars == <<selectedFile, diffContent, isLoadingDiff, diffPending, diffRequests,
              diffLatest>>

\* The stores of the other editors of the app, and what saving and exiting
\* the merge tool adds to the merge store.
appVars == <<commitVars, saveVars, diffVars>>

sideVars == <<parseVars, rebaseVars, historyVars, appVars>>

\* What the merge store's calls read and write.
mergeVars == <<storeVars, loads, trip, io, isLoading>>

NoTrip == [phase |-> "idle", original |-> Null, reverted |-> {}]

\* The load and reload requests: how many were issued, the number of the one
\* whose result was applied last, and those still waiting for the backend.
NoIo == [issued |-> 0, applied |-> 0, pending |-> {}]

\* `!mergedContent`: null and the empty string are both falsy.
Falsy(text) == text = Null \/ text = EmptyText

\* conflicts.find((c) => c.id === conflictId): index of the first match, 0 if none.
FindConflict(cs, id) ==
    IF \E k \in 1..Len(cs) : cs[k].id = id
    THEN CHOOSE k \in 1..Len(cs) :
            cs[k].id = id /\ \A m \in 1..(k - 1) : cs[m].id # id
    ELSE 0

ResolveConflictInContent(content, conflict, replacement) ==
    LET lines == Split(content)
        before == Slice(lines, 0, conflict.startLine)
        after == Slice(lines, conflict.endLine + 1, Len(lines))
        replacementLines == IF replacement # EmptyText THEN Split(replacement) ELSE <<>>
    IN  JoinLines(before \o replacementLines \o after)

\* CheckAllResolved with `some` written for `every`.
CheckAllResolvedSome(cs) ==
    Len(cs) > 0 /\ \E k \in 1..Len(cs) : cs[k].resolved

CheckAllResolved(cs) ==
    Len(cs) > 0 /\ \A k \in 1..Len(cs) : cs[k].resolved

\* ReParseAndPreserveResolved without the test on the id.
ReParseMarkingAll(newContent, oldConflicts, resolvedId) ==
    [k \in 1..Len(oldConflicts) |-> [oldConflicts[k] EXCEPT !.resolved = TRUE]]

ReParseAndPreserveResolved(newContent, oldConflicts, resolvedId) ==
    [k \in 1..Len(oldConflicts) |->
        IF oldConflicts[k].id = resolvedId
        THEN [oldConflicts[k] EXCEPT !.resolved = TRUE]
        ELSE oldConflicts[k]]

\* { ...resolvedReplacements, [conflictId]: replacement }
PutReplacement(rr, id, replacement) ==
    [k \in (DOMAIN rr) \cup {id} |-> IF k = id THEN replacement ELSE rr[k]]

\* const { [conflictId]: _, ...remainingReplacements } = resolvedReplacements
RemoveReplacement(rr, id) ==
    [k \in (DOMAIN rr) \ {id} |-> rr[k]]

\* BothContent without the filter on empty sides.
BothContentUnfiltered(conflict) ==
    JoinLines(Split(conflict.localContent) \o Split(conflict.remoteContent))

\* [localContent, remoteContent].filter((c) => c.length > 0).join("\n")
BothContent(conflict) ==
    LET l == IF conflict.localContent # EmptyText THEN Split(conflict.localContent) ELSE <<>>
        r == IF conflict.remoteContent # EmptyText THEN Split(conflict.remoteContent) ELSE <<>>
    IN  JoinLines(l \o r)

\* useMergeStore as created (initialState), nothing requested yet.
InitMerge ==
    /\ localContent = Null
    /\ remoteContent = Null
    /\ mergedContent = Null
    /\ mergedPath = NullPath
    /\ conflicts = <<>>
    /\ currentConflictIndex = 0
    /\ allResolved = FALSE
    /\ error = NoError
    /\ isDirty = FALSE
    /\ resolvedReplacements = <<>>
    /\ loads = 0
    /\ trip = NoTrip
    /\ io = NoIo
    /\ isLoading = FALSE

\* No text handed to the parser on its own.
InitParseIdle ==
    /\ parseInput = EmptyText
    /\ parseOutput = NotParsed

\* A RebaseEntry: its id and its command type.
Entry(id, command) == [id |-> id, command |-> command]

\* No entry selected.
NoSelection == "null"

\* undo() and redo() return an entries array or null.
NullReturn == [isNull |-> TRUE, entries |-> <<>>]

Returned(e) == [isNull |-> FALSE, entries |-> e]

\* No history call made yet.
NoCall == [op |-> "none", past |-> <<>>, future |-> <<>>]

\* useRebaseStore and useHistoryStore as created.
InitRebase ==
    /\ entries = <<>>
    /\ selectedEntryId = NoSelection
    /\ past = <<>>
    /\ future = <<>>
    /\ returned = NullReturn
    /\ lastCall = NoCall

\* useCommitStore as created.
InitCommit ==
    /\ subject = ""
    /\ body = ""
    /\ originalSubject = ""
    /\ originalBody = ""
    /\ commitIsDirty = FALSE
    /\ commitIsLoading = FALSE
    /\ commitError = NoError
    /\ commitPending = {}

InitSave ==
    /\ isSaving = FALSE
    /\ saving = <<>>
    /\ disk = Null
    /\ exitCode = <<>>
    /\ showWarning = FALSE

\* selectedFile: null and diffContent: null.
NoFile == "null"

NoDiff == "null"

InitDiff ==
    /\ selectedFile = NoFile
    /\ diffContent = NoDiff
    /\ isLoadingDiff = FALSE
    /\ diffPending = <<>>
    /\ diffRequests = 0
    /\ diffLatest = <<>>

InitApp ==
    /\ InitCommit
    /\ InitSave
    /\ InitDiff

Init ==
    /\ InitMerge
    /\ InitParseIdle
    /\ InitRebase
    /\ InitApp

\* ------------------------------------------------------------------------
\* initMerge
\* ------------------------------------------------------------------------

\* readMergeFiles fails: only the error is recorded.
InitMergeReadFail ==
    /\ error' = "IoError"
    /\ isLoading' = FALSE
    /\ UNCHANGED <<mergedContent, mergedPath, localContent, remoteContent, conflicts, currentConflictIndex,
                   allResolved, isDirty, resolvedReplacements, loads, sideVars, trip, io>>

\* parseConflicts fails on the text read.
InitMergeParseFail ==
    \E text \in Docs :
    /\ ~ParseConflicts(text).ok
    /\ error' = "ParseError"
    /\ isLoading' = FALSE
    /\ UNCHANGED <<mergedContent, mergedPath, localContent, remoteContent, conflicts, currentConflictIndex,
                   allResolved, isDirty, resolvedReplacements, loads, sideVars, trip, io>>

InitMergeWith(text) ==
    LET parseResult == ParseConflicts(text) IN
    /\ loads < MaxLoads
    /\ parseResult.ok
    /\ localContent' = LocalFile(text)
    /\ remoteContent' = RemoteFile(text)
    /\ mergedContent' = text
    /\ mergedPath' = MergedPath
    /\ conflicts' = parseResult.conflicts
    /\ currentConflictIndex' = 0
    /\ allResolved' = ~parseResult.hasConflicts
    /\ isDirty' = FALSE
    /\ isLoading' = FALSE
    /\ loads' = loads + 1
    /\ UNCHANGED resolvedReplacements

InitMergeOk == \E text \in Docs : InitMergeWith(text) /\ error' = NoError /\ UNCHANGED <<sideVars, trip, io>>

\* ------------------------------------------------------------------------
\* acceptLocal / acceptRemote / acceptBoth
\* ------------------------------------------------------------------------

AcceptOps == {"acceptLocal", "acceptRemote", "acceptBoth"}

\* The replacement text each accept operation chooses.
Replacement(op, conflict) ==
    CASE op = "acceptLocal" -> conflict.localContent
      [] op = "acceptRemote" -> conflict.remoteContent
      [] OTHER -> BothContent(conflict)

\* The early returns of an accept call.
AcceptReturnsEarly(cs, content, id) ==
    \/ Falsy(content)
    \/ FindConflict(cs, id) = 0
    \/ cs[FindConflict(cs, id)].resolved

\* Accept that records an error when the call has nothing to do.
AcceptRaising(op, id) ==
    /\ AcceptReturnsEarly(conflicts, mergedContent, id)
    /\ error' = "ParseError"
    /\ UNCHANGED <<mergedContent, mergedPath, localContent, remoteContent, conflicts, currentConflictIndex,
                   allResolved, isDirty, resolvedReplacements, loads>>

Accept(op, id) ==
    /\ UNCHANGED loads
    /\ IF AcceptReturnsEarly(conflicts, mergedContent, id)
       THEN UNCHANGED storeVars
       ELSE LET conflict == conflicts[FindConflict(conflicts, id)]
                replacement == Replacement(op, conflict)
                newContent == ResolveConflictInContent(mergedContent, conflict, replacement)
                updatedConflicts == ReParseAndPreserveResolved(newContent, conflicts, id)
            IN  /\ Len(newContent) <= MaxLines
                /\ mergedContent' = newContent
                /\ conflicts' = updatedConflicts
                /\ allResolved' = CheckAllResolved(updatedConflicts)
                /\ isDirty' = TRUE
                /\ resolvedReplacements' = PutReplacement(resolvedReplacements, id, replacement)
                /\ UNCHANGED <<mergedPath, localContent, remoteContent, currentConflictIndex, error>>

AcceptLocal == \E id \in Ids : Accept("acceptLocal", id) /\ UNCHANGED <<sideVars, trip, io, isLoading>>

AcceptRemote == \E id \in Ids : Accept("acceptRemote", id) /\ UNCHANGED <<sideVars, trip, io, isLoading>>

AcceptBoth == \E id \in Ids : Accept("acceptBoth", id) /\ UNCHANGED <<sideVars, trip, io, isLoading>>

\* ------------------------------------------------------------------------
\* revertConflict
\* ------------------------------------------------------------------------

\* `<<<<<<< LOCAL\n${localContent}\n=======\n${remoteContent}\n>>>>>>> REMOTE`
MarkerText(conflict) ==
    <<OpenLocal>> \o conflict.localContent \o <<Separator>>
                  \o conflict.remoteContent \o <<CloseRemote>>

\* The run of lines starting at 0-based line i equals replacementLines.
MatchesAt(contentLines, replacementLines, i) ==
    \A j \in 0..(Len(replacementLines) - 1) :
        contentLines[i + j + 1] = replacementLines[j + 1]

\* First 0-based line >= from where replacementLines starts, or -1.
FindRun(contentLines, replacementLines, from) ==
    LET starts == {i \in from..(Len(contentLines) - Len(replacementLines)) :
                      MatchesAt(contentLines, replacementLines, i)}
    IN  IF starts = {} THEN -1
        ELSE CHOOSE i \in starts : \A k \in starts : i <= k

\* RevertReturnsEarly without the test that the replacement was found.
RevertReturnsEarlyUnsearched(cs, content, rr, id) ==
    \/ Falsy(content)
    \/ FindConflict(cs, id) = 0
    \/ ~cs[FindConflict(cs, id)].resolved
    \/ id \notin DOMAIN rr

\* The early returns of a revert call.
RevertReturnsEarly(cs, content, rr, id) ==
    \/ Falsy(content)
    \/ FindConflict(cs, id) = 0
    \/ ~cs[FindConflict(cs, id)].resolved
    \/ id \notin DOMAIN rr
    \/ FindRun(Split(content), Split(rr[id]), 0) = -1

\* The document after a revert that found the replacement.
RevertedContent(content, conflict, replacement) ==
    LET replacementLines == Split(replacement)
        markerLines == Split(MarkerText(conflict))
        contentLines == Split(content)
        i == FindRun(contentLines, replacementLines, 0)
        before == Slice(contentLines, 0, i)
        after == Slice(contentLines, i + Len(replacementLines), Len(contentLines))
    IN  JoinLines(before \o markerLines \o after)

MarkUnresolved(cs, id) ==
    [k \in 1..Len(cs) |->
        IF cs[k].id = id THEN [cs[k] EXCEPT !.resolved = FALSE] ELSE cs[k]]

Revert(id) ==
    /\ UNCHANGED loads
    /\ IF RevertReturnsEarly(conflicts, mergedContent, resolvedReplacements, id)
       THEN UNCHANGED storeVars
       ELSE LET conflict == conflicts[FindConflict(conflicts, id)]
                newContent == RevertedContent(mergedContent, conflict,
                                              resolvedReplacements[id])
                updatedConflicts == MarkUnresolved(conflicts, id)
            IN  /\ Len(newContent) <= MaxLines
                /\ mergedContent' = newContent
                /\ conflicts' = updatedConflicts
                /\ resolvedReplacements' = RemoveReplacement(resolvedReplacements, id)
                /\ allResolved' = CheckAllResolved(updatedConflicts)
                /\ isDirty' = TRUE
                /\ UNCHANGED <<mergedPath, localContent, remoteContent, currentConflictIndex, error>>

RevertConflict == \E id \in Ids : Revert(id) /\ UNCHANGED <<sideVars, trip, io, isLoading>>

\* ------------------------------------------------------------------------
\* updateMergedContent, navigation, save, reload, clearError
\* ------------------------------------------------------------------------

\* UpdateMergedContent that derives the conflict list again from the text.
UpdateMergedContentReparsing ==
    \E content \in EditTexts :
    /\ mergedContent' = content
    /\ isDirty' = TRUE
    /\ conflicts' = ParseConflicts(content).conflicts
    /\ UNCHANGED <<mergedPath, localContent, remoteContent, currentConflictIndex, allResolved,
                   error, resolvedReplacements, loads, sideVars, trip, io, isLoading>>

UpdateMergedContent ==
    \E content \in EditTexts :
    /\ mergedContent' = content
    /\ isDirty' = TRUE
    /\ UNCHANGED <<mergedPath, localContent, remoteContent, conflicts, currentConflictIndex, allResolved,
                   error, resolvedReplacements, loads, sideVars, trip, io, isLoading>>

\* 0-based indices of the unresolved regions, as a set.
UnresolvedIndices(cs) == {k - 1 : k \in {m \in 1..Len(cs) : ~cs[m].resolved}}

SetMin(S) == CHOOSE x \in S : \A y \in S : x <= y

SetMax(S) == CHOOSE x \in S : \A y \in S : x >= y

\* NextTarget accepting the region the cursor is on.
NextTargetNotStrict(cs, cur) ==
    LET u == UnresolvedIndices(cs)
        later == {i \in u : i >= cur}
    IN  IF later # {} THEN SetMin(later) ELSE SetMin(u)

NextTarget(cs, cur) ==
    LET u == UnresolvedIndices(cs)
        later == {i \in u : i > cur}
    IN  IF later # {} THEN SetMin(later) ELSE SetMin(u)

\* PrevTarget wrapping to the first unresolved region.
PrevTargetWrapFirst(cs, cur) ==
    LET u == UnresolvedIndices(cs)
        earlier == {i \in u : i < cur}
    IN  IF earlier # {} THEN SetMax(earlier) ELSE SetMin(u)

PrevTarget(cs, cur) ==
    LET u == UnresolvedIndices(cs)
        earlier == {i \in u : i < cur}
    IN  IF earlier # {} THEN SetMax(earlier) ELSE SetMax(u)

\* `return null`
NoLine == -1

\* What goToNextConflict returns: null, or conflicts[targetIndex].startLine.
GoToNextConflictReturn(cs, cur) ==
    IF UnresolvedIndices(cs) = {} THEN NoLine
    ELSE cs[NextTarget(cs, cur) + 1].startLine

\* What goToPrevConflict returns.
GoToPrevConflictReturn(cs, cur) ==
    IF UnresolvedIndices(cs) = {} THEN NoLine
    ELSE cs[PrevTarget(cs, cur) + 1].startLine

\* GoToNextConflict that puts the cursor back on the first region when no
\* region is unresolved.
GoToNextConflictRewinding ==
    /\ IF UnresolvedIndices(conflicts) = {}
       THEN currentConflictIndex' = 0
       ELSE currentConflictIndex' = NextTarget(conflicts, currentConflictIndex)
    /\ UNCHANGED <<mergedContent, mergedPath, localContent, remoteContent, conflicts, allResolved, error,
                   isDirty, resolvedReplacements, loads, sideVars, trip, io, isLoading>>

GoToNextConflict ==
    /\ IF UnresolvedIndices(conflicts) = {}
       THEN UNCHANGED currentConflictIndex
       ELSE currentConflictIndex' = NextTarget(conflicts, currentConflictIndex)
    /\ UNCHANGED <<mergedContent, mergedPath, localContent, remoteContent, conflicts, allResolved, error,
                   isDirty, resolvedReplacements, loads, sideVars, trip, io, isLoading>>

GoToPrevConflict ==
    /\ IF UnresolvedIndices(conflicts) = {}
       THEN UNCHANGED currentConflictIndex
       ELSE currentConflictIndex' = PrevTarget(conflicts, currentConflictIndex)
    /\ UNCHANGED <<mergedContent, mergedPath, localContent, remoteContent, conflicts, allResolved, error,
                   isDirty, resolvedReplacements, loads, sideVars, trip, io, isLoading>>

SaveOk ==
    /\ mergedPath # NullPath
    /\ mergedContent # Null
    /\ isDirty' = FALSE
    /\ error' = NoError
    /\ UNCHANGED <<mergedContent, mergedPath, localContent, remoteContent, conflicts, currentConflictIndex,
                   allResolved, resolvedReplacements, loads, sideVars, trip, io, isLoading>>

SaveFail ==
    /\ mergedPath # NullPath
    /\ mergedContent # Null
    /\ error' = "IoError"
    /\ UNCHANGED <<mergedContent, mergedPath, localContent, remoteContent, conflicts, currentConflictIndex,
                   allResolved, isDirty, resolvedReplacements, loads, sideVars, trip, io, isLoading>>

\* The texts a reload may read: the document as it stands (it was saved, or
\* nothing touched the file) or what another program wrote.
FileTexts == (IF mergedContent = Null THEN {} ELSE {mergedContent}) \cup ExternalDocs

ReloadReadFail ==
    /\ mergedPath # NullPath
    /\ error' = "IoError"
    /\ isLoading' = FALSE
    /\ UNCHANGED <<mergedContent, mergedPath, localContent, remoteContent, conflicts, currentConflictIndex,
                   allResolved, isDirty, resolvedReplacements, loads, sideVars, trip, io>>

ReloadParseFail ==
    \E text \in FileTexts :
    /\ mergedPath # NullPath
    /\ ~ParseConflicts(text).ok
    /\ error' = "ParseError"
    /\ isLoading' = FALSE
    /\ UNCHANGED <<mergedContent, mergedPath, localContent, remoteContent, conflicts, currentConflictIndex,
                   allResolved, isDirty, resolvedReplacements, loads, sideVars, trip, io>>

\* oldConflicts.filter((c) => c.resolved)
OldResolved(cs) == SelectSeq(cs, LAMBDA c : c.resolved)

\* MergedConflicts without the regions carried over.
MergedConflictsFreshOnly(fresh, oldResolved) == fresh

\* [...parseResult.data.conflicts, ...oldResolved]
MergedConflicts(fresh, oldResolved) == fresh \o oldResolved

ReloadAllResolved(hasUnresolved, oldResolved, mergedConflicts) ==
    IF ~hasUnresolved /\ Len(oldResolved) > 0
    THEN CheckAllResolved(mergedConflicts)
    ELSE ~hasUnresolved

\* The final set() of reloadMergedFile for the text read; oldConflicts and
\* replacements are what the call took from the store when it began.
ReloadWith(text, oldConflicts, replacements) ==
    LET parseResult == ParseConflicts(text)
        oldResolved == OldResolved(oldConflicts)
        mergedConflicts == MergedConflicts(parseResult.conflicts, oldResolved)
    IN  /\ loads < MaxLoads
        /\ parseResult.ok
        /\ Len(mergedConflicts) <= MaxConflicts
        /\ mergedContent' = text
        /\ conflicts' = mergedConflicts
        /\ currentConflictIndex' = 0
        /\ allResolved' = ReloadAllResolved(parseResult.hasConflicts, oldResolved, mergedConflicts)
        /\ isDirty' = FALSE
        /\ isLoading' = FALSE
        /\ loads' = loads + 1
        /\ resolvedReplacements' = replacements
        /\ UNCHANGED <<mergedPath, localContent, remoteContent>>

\* A reload that runs from call to result with no other call in between.
ReloadOk ==
    \E text \in FileTexts :
        /\ mergedPath # NullPath
        /\ ReloadWith(text, conflicts, resolvedReplacements)
        /\ error' = NoError
        /\ UNCHANGED <<sideVars, trip, io>>

ClearError ==
    /\ error' = NoError
    /\ UNCHANGED <<mergedContent, mergedPath, localContent, remoteContent, conflicts, currentConflictIndex,
                   allResolved, isDirty, resolvedReplacements, loads, sideVars, trip, io, isLoading>>

\* openCodexResolve whose launch fails: the backend's error is recorded.  A
\* launch that succeeds changes nothing in the store.
OpenCodexResolveFail ==
    /\ mergedPath # NullPath
    /\ error' = "IoError"
    /\ UNCHANGED <<mergedContent, mergedPath, localContent, remoteContent, conflicts, currentConflictIndex,
                   allResolved, isDirty, resolvedReplacements, loads, sideVars, trip, io, isLoading>>

Next ==
    \/ InitMergeReadFail
    \/ InitMergeParseFail
    \/ InitMergeOk
    \/ AcceptLocal
    \/ AcceptRemote
    \/ AcceptBoth
    \/ RevertConflict
    \/ UpdateMergedContent
    \/ GoToNextConflict
    \/ GoToPrevConflict
    \/ SaveOk
    \/ SaveFail
    \/ ReloadReadFail
    \/ ReloadParseFail
    \/ ReloadOk
    \/ ClearError
    \/ OpenCodexResolveFail

Spec == Init /\ [][Next]_vars

\* ------------------------------------------------------------------------
\* The resolution calls alone: loads, accepts and reverts, with no free-form
\* edit and no reload.  trip records the shape of the calls since the load:
\* "accepting" while only effective acceptLocal calls were made, "reverting"
\* once every region was accepted and reverts began, "off" otherwise.
\* ------------------------------------------------------------------------

TripAfterAccept(op, id) ==
    IF AcceptReturnsEarly(conflicts, mergedContent, id) THEN trip
    ELSE IF trip.phase = "accepting" /\ op = "acceptLocal" THEN trip
    ELSE [trip EXCEPT !.phase = "off"]

TripAfterRevert(id) ==
    IF trip.phase = "accepting" /\ allResolved
    THEN [trip EXCEPT !.phase = "reverting", !.reverted = {id}]
    ELSE IF trip.phase = "reverting"
    THEN [trip EXCEPT !.reverted = @ \cup {id}]
    ELSE [trip EXCEPT !.phase = "off"]

ResolveLoad ==
    \E text \in Docs :
        /\ InitMergeWith(text)
        /\ error' = NoError
        /\ trip' = [phase |-> "accepting", original |-> text, reverted |-> {}]
        /\ UNCHANGED <<sideVars, io>>

ResolveAcceptLocal ==
    \E id \in Ids :
        Accept("acceptLocal", id) /\ trip' = TripAfterAccept("acceptLocal", id) /\ UNCHANGED <<sideVars, io, isLoading>>

ResolveAcceptRemote ==
    \E id \in Ids :
        Accept("acceptRemote", id) /\ trip' = TripAfterAccept("acceptRemote", id) /\ UNCHANGED <<sideVars, io, isLoading>>

ResolveAcceptBoth ==
    \E id \in Ids :
        Accept("acceptBoth", id) /\ trip' = TripAfterAccept("acceptBoth", id) /\ UNCHANGED <<sideVars, io, isLoading>>

ResolveRevert ==
    \E id \in Ids : Revert(id) /\ trip' = TripAfterRevert(id) /\ UNCHANGED <<sideVars, io, isLoading>>

NextResolve ==
    \/ ResolveLoad
    \/ ResolveAcceptLocal
    \/ ResolveAcceptRemote
    \/ ResolveAcceptBoth
    \/ ResolveRevert

SpecResolve == Init /\ [][NextResolve]_vars

\* ------------------------------------------------------------------------
\* Navigation over a file with three regions: load, acceptLocal, revert,
\* reload and the two cursor moves
\* ------------------------------------------------------------------------

NavLoad == InitMergeWith(DocThree) /\ error' = NoError /\ UNCHANGED <<sideVars, trip, io>>

NextNav ==
    \/ NavLoad
    \/ AcceptLocal
    \/ RevertConflict
    \/ ReloadOk
    \/ GoToNextConflict
    \/ GoToPrevConflict

SpecNav == Init /\ [][NextNav]_vars

\* ------------------------------------------------------------------------
\* Loads and reloads as the two steps they are: the call, which clears the
\* error and hands the reads to the backend, and the arrival of the result,
\* which the final set() applies.  Results arrive in any order.
\* ------------------------------------------------------------------------

MaxRequests == 3

\* The request with the next number.
NewRequest(kind, text, oldConflicts, replacements) ==
    [n |-> io.issued + 1, kind |-> kind, content |-> text,
     oldConflicts |-> oldConflicts, resolvedReplacements |-> replacements]

\* initMerge is called: set({ isLoading: true, error: null }), then the awaits.
RequestInitMerge ==
    \E text \in Docs :
        /\ io.issued < MaxRequests
        /\ io' = [io EXCEPT !.issued = @ + 1,
                            !.pending = @ \cup {NewRequest("initMerge", text, <<>>, <<>>)}]
        /\ error' = NoError
        /\ isLoading' = TRUE
        /\ UNCHANGED <<localContent, remoteContent, mergedContent, mergedPath, conflicts,
                       currentConflictIndex, allResolved, isDirty,
                       resolvedReplacements, loads, sideVars, trip>>

\* reloadMergedFile is called: it takes conflicts and resolvedReplacements
\* from the store, clears the error, then awaits.
RequestReload ==
    \E text \in FileTexts :
        /\ mergedPath # NullPath
        /\ io.issued < MaxRequests
        /\ io' = [io EXCEPT !.issued = @ + 1,
                            !.pending = @ \cup {NewRequest("reloadMergedFile", text,
                                                           conflicts, resolvedReplacements)}]
        /\ error' = NoError
        /\ isLoading' = TRUE
        /\ UNCHANGED <<localContent, remoteContent, mergedContent, mergedPath, conflicts,
                       currentConflictIndex, allResolved, isDirty,
                       resolvedReplacements, loads, sideVars, trip>>

\* The result of an initMerge call arrives and is applied.
InitMergeArrives ==
    \E r \in io.pending :
        /\ r.kind = "initMerge"
        /\ InitMergeWith(r.content)
        /\ UNCHANGED error
        /\ io' = [io EXCEPT !.applied = r.n, !.pending = @ \ {r}]
        /\ UNCHANGED <<sideVars, trip>>

\* The result of a reloadMergedFile call arrives and is applied.
ReloadArrives ==
    \E r \in io.pending :
        /\ r.kind = "reloadMergedFile"
        /\ ReloadWith(r.content, r.oldConflicts, r.resolvedReplacements)
        /\ UNCHANGED error
        /\ io' = [io EXCEPT !.applied = r.n, !.pending = @ \ {r}]
        /\ UNCHANGED <<sideVars, trip>>

\* The errors a pending call can end with: the read fails whatever the file
\* holds, the parse fails on a text the parser rejects.
FailuresOf(r) ==
    {"IoError"} \cup (IF ParseConflicts(r.content).ok THEN {} ELSE {"ParseError"})

\* The failing set() that also installs the regions parsed so far.
LoadFailsInstallingList(e) ==
    /\ error' = e
    /\ isLoading' = FALSE
    /\ conflicts' = <<>>
    /\ UNCHANGED <<localContent, remoteContent, mergedContent, mergedPath,
                   currentConflictIndex, allResolved, isDirty,
                   resolvedReplacements, loads, sideVars, trip>>

\* The failing set() of initMerge and reloadMergedFile.
LoadFailsWith(e) ==
    /\ error' = e
    /\ isLoading' = FALSE
    /\ UNCHANGED <<localContent, remoteContent, mergedContent, mergedPath, conflicts,
                   currentConflictIndex, allResolved, isDirty,
                   resolvedReplacements, loads, sideVars, trip>>

\* A pending initMerge ends with a failed read or a failed parse.
InitMergeFails ==
    \E r \in io.pending :
        /\ r.kind = "initMerge"
        /\ \E e \in FailuresOf(r) : LoadFailsWith(e)
        /\ io' = [io EXCEPT !.pending = @ \ {r}]

\* A pending reloadMergedFile ends with a failed read or a failed parse.
ReloadFails ==
    \E r \in io.pending :
        /\ r.kind = "reloadMergedFile"
        /\ \E e \in FailuresOf(r) : LoadFailsWith(e)
        /\ io' = [io EXCEPT !.pending = @ \ {r}]

NextIO ==
    \/ RequestInitMerge
    \/ RequestReload
    \/ InitMergeArrives
    \/ ReloadArrives
    \/ InitMergeFails
    \/ ReloadFails
    \/ AcceptLocal

SpecIO == Init /\ [][NextIO]_vars

\* ------------------------------------------------------------------------
\* The parser on its own: one text, parsed once
\* ------------------------------------------------------------------------

InitParse ==
    /\ InitMerge
    /\ InitRebase
    /\ InitApp
    /\ parseInput \in ParseTexts
    /\ parseOutput = NotParsed

\* parse_conflicts is invoked on the text.
ParseText ==
    /\ parseOutput = NotParsed
    /\ parseOutput' = ParseConflicts(parseInput)
    /\ UNCHANGED <<parseInput, mergeVars, rebaseVars, historyVars, appVars>>

NextParse ==
    \/ ParseText

SpecParse == InitParse /\ [][NextParse]_vars

\* ------------------------------------------------------------------------
\* useHistoryStore: pushSnapshot, undo, redo, clear
\* ------------------------------------------------------------------------

MAX_HISTORY == 50

\* A snapshot holds its own copy of the entries.  shared says that the rebase
\* store's entries array is this very copy, which is so after setEntries was
\* handed it.  The timestamp is never read and is left out.
Snapshot(e) == [entries |-> e, shared |-> FALSE]

Last(seq) == seq[Len(seq)]

Front(seq) == SubSeq(seq, 1, Len(seq) - 1)

\* pushSnapshot that drops the newest snapshot when the limit is passed.
PushSnapshotDroppingNewest(e) ==
    LET newPast == Append(past, Snapshot(e))
    IN  /\ past' = IF Len(newPast) > MAX_HISTORY THEN Front(newPast) ELSE newPast
        /\ future' = <<>>

\* pushSnapshot that keeps the future.
PushSnapshotKeepingFuture(e) ==
    LET newPast == Append(past, Snapshot(e))
    IN  /\ past' = IF Len(newPast) > MAX_HISTORY THEN Tail(newPast) ELSE newPast
        /\ future' = future

\* The past pushSnapshot leaves when it finds past p.
PushedPast(p, e) ==
    LET newPast == Append(p, Snapshot(e))
    IN  IF Len(newPast) > MAX_HISTORY THEN Tail(newPast) ELSE newPast

PushSnapshot(e) ==
    /\ past' = PushedPast(past, e)
    /\ future' = <<>>

\* What undo() returns for the past it leaves.
UndoReturn(newPast) ==
    IF Len(newPast) > 0 THEN Returned(Last(newPast).entries) ELSE NullReturn

\* undo that answers with the entries of the snapshot it removed.
UndoReturningRemoved ==
    IF Len(past) = 0
    THEN /\ returned' = NullReturn
         /\ UNCHANGED <<past, future>>
    ELSE /\ past' = Front(past)
         /\ future' = <<Last(past)>> \o future
         /\ returned' = Returned(Last(past).entries)

Undo ==
    IF Len(past) = 0
    THEN /\ returned' = NullReturn
         /\ UNCHANGED <<past, future>>
    ELSE LET newPast == Front(past)
             snapshot == Last(past)
         IN  /\ past' = newPast
             /\ future' = <<snapshot>> \o future
             /\ returned' = UndoReturn(newPast)

\* redo that takes the oldest-undone snapshot, the last of future.
RedoTakingLast ==
    IF Len(future) = 0
    THEN /\ returned' = NullReturn
         /\ UNCHANGED <<past, future>>
    ELSE /\ past' = Append(past, Last(future))
         /\ future' = Front(future)
         /\ returned' = Returned(Last(future).entries)

Redo ==
    IF Len(future) = 0
    THEN /\ returned' = NullReturn
         /\ UNCHANGED <<past, future>>
    ELSE LET newFuture == Tail(future)
             snapshot == Head(future)
         IN  /\ past' = Append(past, snapshot)
             /\ future' = newFuture
             /\ returned' = Returned(snapshot.entries)

CanUndo == Len(past) > 0

CanRedo == Len(future) > 0

\* The record of a history call: its name and the past and future it found.
Call(op) == [op |-> op, past |-> past, future |-> future]

\* The store driven directly, as its tests drive it.
MaxPast == 3

HistoryInputs ==
    { <<Entry("1", "pick")>>,
      <<Entry("1", "pick"), Entry("2", "pick")>>,
      <<Entry("1", "drop"), Entry("2", "pick")>> }

HistoryPush ==
    \E e \in HistoryInputs :
        /\ Len(past) < MaxPast
        /\ PushSnapshot(e)
        /\ lastCall' = Call("pushSnapshot")
        /\ UNCHANGED <<returned, rebaseVars, parseVars, mergeVars, appVars>>

HistoryUndo ==
    /\ Undo
    /\ lastCall' = Call("undo")
    /\ UNCHANGED <<rebaseVars, parseVars, mergeVars, appVars>>

HistoryRedo ==
    /\ Redo
    /\ lastCall' = Call("redo")
    /\ UNCHANGED <<rebaseVars, parseVars, mergeVars, appVars>>

HistoryClear ==
    /\ past' = <<>>
    /\ future' = <<>>
    /\ lastCall' = Call("clear")
    /\ UNCHANGED <<returned, rebaseVars, parseVars, mergeVars, appVars>>

NextHistory ==
    \/ HistoryPush
    \/ HistoryUndo
    \/ HistoryRedo
    \/ HistoryClear

SpecHistory == Init /\ [][NextHistory]_vars

\* The store driven up to its limit: the first snapshot of a history is the
\* list as loaded, every later one an edited list.
LoadedList == <<Entry("1", "pick")>>

EditedList == <<Entry("1", "drop")>>

HistoryPushToLimit ==
    /\ PushSnapshot(IF past = <<>> THEN LoadedList ELSE EditedList)
    /\ lastCall' = Call("pushSnapshot")
    /\ UNCHANGED <<returned, rebaseVars, parseVars, mergeVars, appVars>>

NextHistoryLimit ==
    \/ HistoryPushToLimit
    \/ HistoryUndo
    \/ HistoryRedo
    \/ HistoryClear

SpecHistoryLimit == Init /\ [][NextHistoryLimit]_vars

\* ------------------------------------------------------------------------
\* The rebase editor: useRebaseStore, the keyboard handler of RebaseEditor,
\* and App's undo and redo handlers with its snapshot effect
\* ------------------------------------------------------------------------

\* The commands the keys p, s, f and d set (r and e set commands that count
\* as pick does everywhere below).
SimpleCommands == {"pick", "squash", "fixup", "drop"}

\* The todo lists a file can hold: of three commits, none dropped, the first
\* dropped, the first two dropped.
TodoLists ==
    { <<Entry("1", "pick"), Entry("2", "pick"), Entry("3", "pick")>>,
      <<Entry("1", "drop"), Entry("2", "pick"), Entry("3", "pick")>>,
      <<Entry("1", "drop"), Entry("2", "drop"), Entry("3", "pick")>> }

EntryIds == {"1", "2", "3"}

\* entries.findIndex((e) => e.id === entryId), 0-based, -1 when absent.
FindIndex(es, entryId) ==
    IF \E i \in 1..Len(es) : es[i].id = entryId
    THEN (CHOOSE i \in 1..Len(es) :
            /\ es[i].id = entryId
            /\ \A j \in 1..(i - 1) : es[j].id # entryId) - 1
    ELSE -1

\* canSquashOrFixupEntry that looks at the entry just before only.
CanSquashOrFixupEntryPreviousOnly(es, entryId) ==
    LET index == FindIndex(es, entryId)
    IN  IF index <= 0 THEN FALSE
        ELSE es[index].command # "drop"

\* canSquashOrFixupEntry: some entry before this one is not drop.
CanSquashOrFixupEntry(es, entryId) ==
    LET index == FindIndex(es, entryId)
    IN  IF index <= 0 THEN FALSE
        ELSE \E i \in 0..(index - 1) : es[i + 1].command # "drop"

\* updateEntryCommand: entries.map(...) with the command of entry id replaced.
UpdateEntryCommand(es, id, command) ==
    [i \in 1..Len(es) |-> IF es[i].id = id THEN [es[i] EXCEPT !.command = command] ELSE es[i]]

\* moveEntry: splice the entry out of fromIndex and in at toIndex (0-based).
MoveEntry(es, fromIndex, toIndex) ==
    LET removed == es[fromIndex + 1]
        rest == SubSeq(es, 1, fromIndex) \o SubSeq(es, fromIndex + 2, Len(es))
    IN  SubSeq(rest, 1, toIndex) \o <<removed>> \o SubSeq(rest, toIndex + 1, Len(rest))

\* No snapshot's copy is the rebase store's array any more.
Unshare(seq) == [i \in 1..Len(seq) |-> [seq[i] EXCEPT !.shared = FALSE]]

\* setEntries was handed the copy held by the last snapshot of seq.
ShareLast(seq) == [Unshare(seq) EXCEPT ![Len(seq)].shared = TRUE]

\* App's effect on [entries]: pushSnapshot(entries) when entries is non-empty.
\* p and f are the past and future the effect finds.
SnapshotEffect(e, p, f) ==
    IF Len(e) > 0
    THEN /\ past' = PushedPast(p, e)
         /\ future' = <<>>
    ELSE /\ past' = p
         /\ future' = f

\* The rebase store sets a new entries array; then the effect runs.
SetNewEntries(e) ==
    /\ entries' = e
    /\ SnapshotEffect(e, Unshare(past), future)

\* The snapshots the model lets past hold in the editor.
MaxSnapshots == 2

\* parseContent succeeds on the file loaded.
ParseContentOk ==
    \E todo \in TodoLists :
    /\ entries = <<>>
    /\ SetNewEntries(todo)
    /\ UNCHANGED <<selectedEntryId, returned, lastCall, parseVars, mergeVars, appVars>>

\* selectEntry, from a click or an arrow key.
SelectEntry ==
    \E id \in EntryIds :
        /\ entries # <<>>
        /\ selectedEntryId' = id
        /\ UNCHANGED <<entries, historyVars, parseVars, mergeVars, appVars>>

\* handleKeyDown for the key of a command, with an entry selected.  A squash
\* or fixup that has no target returns before anything is set.
KeyDownFor(command) ==
    /\ selectedEntryId # NoSelection
    /\ IF command \in {"squash", "fixup"} /\ ~CanSquashOrFixupEntry(entries, selectedEntryId)
       THEN UNCHANGED <<entries, historyVars>>
       ELSE /\ Len(past) < MaxSnapshots
            /\ SetNewEntries(UpdateEntryCommand(entries, selectedEntryId, command))
            /\ UNCHANGED <<returned, lastCall>>

KeyDownCommand ==
    \E command \in SimpleCommands :
        /\ KeyDownFor(command)
        /\ UNCHANGED <<selectedEntryId, parseVars, mergeVars, appVars>>

\* handleKeyDown for Cmd+ArrowUp (-1) and Cmd+ArrowDown (+1).
KeyDownMove ==
    \E d \in {-1, 1} :
        LET currentIndex == FindIndex(entries, selectedEntryId) IN
        /\ selectedEntryId # NoSelection
        /\ Len(past) < MaxSnapshots
        /\ currentIndex # -1
        /\ IF d = -1 THEN currentIndex > 0 ELSE currentIndex < Len(entries) - 1
        /\ SetNewEntries(MoveEntry(entries, currentIndex, currentIndex + d))
        /\ UNCHANGED <<selectedEntryId, returned, lastCall, parseVars, mergeVars, appVars>>

\* setEntries(snapshot's entries) followed by the effect.  When the store
\* already holds that very array nothing changed for React and the effect
\* does not run.  p ends with the snapshot whose entries undo or redo returned.
SetEntriesFromLast(p, f) ==
    IF Last(p).shared
    THEN /\ past' = p
         /\ future' = f
         /\ UNCHANGED entries
    ELSE /\ entries' = Last(p).entries
         /\ SnapshotEffect(Last(p).entries, ShareLast(p), f)

\* App.handleUndo: undo(), then setEntries when it returned entries.
HandleUndo ==
    /\ IF Len(past) = 0
       THEN /\ returned' = NullReturn
            /\ UNCHANGED <<past, future, entries>>
       ELSE LET newPast == Front(past)
                newFuture == <<Last(past)>> \o future
            IN  /\ returned' = UndoReturn(newPast)
                /\ IF Len(newPast) = 0
                   THEN /\ past' = newPast
                        /\ future' = newFuture
                        /\ UNCHANGED entries
                   ELSE SetEntriesFromLast(newPast, newFuture)
    /\ UNCHANGED <<selectedEntryId, lastCall, parseVars, mergeVars, appVars>>

\* App.handleRedo: redo(), then setEntries when it returned entries.
HandleRedo ==
    /\ Len(past) < MaxSnapshots
    /\ IF Len(future) = 0
       THEN /\ returned' = NullReturn
            /\ UNCHANGED <<past, future, entries>>
       ELSE /\ returned' = Returned(Head(future).entries)
            /\ SetEntriesFromLast(Append(past, Head(future)), Tail(future))
    /\ UNCHANGED <<selectedEntryId, lastCall, parseVars, mergeVars, appVars>>

NextRebase ==
    \/ ParseContentOk
    \/ SelectEntry
    \/ KeyDownCommand
    \/ KeyDownMove
    \/ HandleUndo
    \/ HandleRedo

SpecRebase == Init /\ [][NextRebase]_vars

\* ------------------------------------------------------------------------
\* useCommitStore: parseContent, setSubject, setBody, reset
\* ------------------------------------------------------------------------

\* What the merge, parser, rebase and history parts hold.
baseVars == <<mergeVars, parseVars, rebaseVars, historyVars, saveVars, diffVars>>

Subjects == {"", "fix", "feat"}

Bodies == {"", "why"}

\* The messages parseCommitMsg can answer with.
ParsedMessages == [subject : {"fix", "feat"}, body : Bodies]

MaxCommitParses == 2

\* parseContent is called: set({ isLoading: true, error: null }), then the
\* await.  The backend will answer with msg, or with an error.
CommitParseRequest ==
    \E msg \in ParsedMessages :
        /\ Cardinality(commitPending) < MaxCommitParses
        /\ msg \notin commitPending
        /\ commitPending' = commitPending \cup {msg}
        /\ commitIsLoading' = TRUE
        /\ commitError' = NoError
        /\ UNCHANGED <<subject, body, originalSubject, originalBody, commitIsDirty, baseVars>>

\* parseCommitMsg answered ok: the message is installed as current and as
\* original.  validate() after it writes validation only.
CommitParseOk ==
    \E msg \in commitPending :
        /\ commitPending' = commitPending \ {msg}
        /\ subject' = msg.subject
        /\ body' = msg.body
        /\ originalSubject' = msg.subject
        /\ originalBody' = msg.body
        /\ commitIsLoading' = FALSE
        /\ commitIsDirty' = FALSE
        /\ UNCHANGED <<commitError, baseVars>>

\* parseCommitMsg answered with an error.
CommitParseFail ==
    \E msg \in commitPending :
        /\ commitPending' = commitPending \ {msg}
        /\ commitError' = "ParseError"
        /\ commitIsLoading' = FALSE
        /\ UNCHANGED <<subject, body, originalSubject, originalBody, commitIsDirty, baseVars>>

\* setSubject that compares the subject it replaces.
SetSubjectComparingOld(s) ==
    /\ subject' = s
    /\ commitIsDirty' = (subject # originalSubject \/ body # originalBody)

SetSubject(s) ==
    /\ subject' = s
    /\ commitIsDirty' = (s # originalSubject \/ body # originalBody)

SetBody(b) ==
    /\ body' = b
    /\ commitIsDirty' = (subject # originalSubject \/ b # originalBody)

CommitSetSubject ==
    \E s \in Subjects :
        /\ SetSubject(s)
        /\ UNCHANGED <<body, originalSubject, originalBody, commitIsLoading, commitError,
                       commitPending, baseVars>>

CommitSetBody ==
    \E b \in Bodies :
        /\ SetBody(b)
        /\ UNCHANGED <<subject, originalSubject, originalBody, commitIsLoading, commitError,
                       commitPending, baseVars>>

\* reset: set(initialState).  Calls awaiting their result stay pending.
CommitReset ==
    /\ subject' = ""
    /\ body' = ""
    /\ originalSubject' = ""
    /\ originalBody' = ""
    /\ commitIsDirty' = FALSE
    /\ commitIsLoading' = FALSE
    /\ commitError' = NoError
    /\ UNCHANGED <<commitPending, baseVars>>

\* clearError of the commit store.
CommitClearError ==
    /\ commitError' = NoError
    /\ UNCHANGED <<subject, body, originalSubject, originalBody, commitIsDirty,
                   commitIsLoading, commitPending, baseVars>>

NextCommit ==
    \/ CommitParseRequest
    \/ CommitParseOk
    \/ CommitParseFail
    \/ CommitSetSubject
    \/ CommitSetBody
    \/ CommitReset
    \/ CommitClearError

SpecCommit == Init /\ [][NextCommit]_vars

\* ------------------------------------------------------------------------
\* Saving and leaving the merge tool: save, MergeActionBar, MergeEditor
\* ------------------------------------------------------------------------

\* The writeFile calls that may be awaiting their result at once.
MaxSaves == 2

\* The process runs until exit_app was invoked.
Running == exitCode = <<>>

RemoveAt(seq, i) == SubSeq(seq, 1, i - 1) \o SubSeq(seq, i + 1, Len(seq))

\* save() up to its await: the path and the text are read, isSaving is set and
\* the error cleared, and writeFile is called with the text as read. via names
\* the handler that called save().
StartSave(via) ==
    /\ mergedPath # NullPath
    /\ mergedContent # Null
    /\ Len(saving) < MaxSaves
    /\ isSaving' = TRUE
    /\ error' = NoError
    /\ saving' = Append(saving, [text |-> mergedContent, via |-> via])

\* initMerge from call to result, reading the merged file.
SaveLoad ==
    \E text \in Docs :
        /\ Running
        /\ InitMergeWith(text)
        /\ error' = NoError
        /\ disk' = text
        /\ UNCHANGED <<parseVars, rebaseVars, historyVars, commitVars, diffVars, trip, io,
                       isSaving, saving, exitCode, showWarning>>

SaveAcceptLocal ==
    \E id \in Ids :
        /\ Running
        /\ Accept("acceptLocal", id)
        /\ UNCHANGED <<sideVars, trip, io, isLoading>>

SaveRevertConflict ==
    \E id \in Ids :
        /\ Running
        /\ Revert(id)
        /\ UNCHANGED <<sideVars, trip, io, isLoading>>

SaveUpdateMergedContent == Running /\ UpdateMergedContent

\* The save button, which is disabled while isSaving: with unresolved regions
\* it only opens the warning.
HandleSave ==
    /\ Running
    /\ ~isSaving
    /\ IF ~allResolved
       THEN /\ showWarning' = TRUE
            /\ UNCHANGED <<isSaving, saving, error>>
       ELSE /\ StartSave("handleSave")
            /\ UNCHANGED showWarning
    /\ UNCHANGED <<localContent, remoteContent, mergedContent, mergedPath, conflicts,
                   currentConflictIndex, allResolved, isDirty, resolvedReplacements,
                   loads, trip, io, isLoading, parseVars, rebaseVars, historyVars,
                   commitVars, diffVars, disk, exitCode>>

\* The warning's save button.
HandleForceSave ==
    /\ Running
    /\ showWarning
    /\ showWarning' = FALSE
    /\ IF mergedPath # NullPath /\ mergedContent # Null
       THEN StartSave("handleForceSave")
       ELSE UNCHANGED <<isSaving, saving, error>>
    /\ UNCHANGED <<localContent, remoteContent, mergedContent, mergedPath, conflicts,
                   currentConflictIndex, allResolved, isDirty, resolvedReplacements,
                   loads, trip, io, isLoading, parseVars, rebaseVars, historyVars,
                   commitVars, diffVars, disk, exitCode>>

\* The warning's back button.
DismissWarning ==
    /\ Running
    /\ showWarning
    /\ showWarning' = FALSE
    /\ UNCHANGED <<mergeVars, parseVars, rebaseVars, historyVars, commitVars, diffVars,
                   isSaving, saving, disk, exitCode>>

\* The shortcut's save started although regions are unresolved.
HandleShortcutSaveUnguarded ==
    /\ Running
    /\ StartSave("handleShortcutSave")
    /\ UNCHANGED <<localContent, remoteContent, mergedContent, mergedPath, conflicts,
                   currentConflictIndex, allResolved, isDirty, resolvedReplacements,
                   loads, trip, io, isLoading, parseVars, rebaseVars, historyVars,
                   commitVars, diffVars, disk, exitCode, showWarning>>

\* Ctrl/Cmd+S: nothing with unresolved regions, else save.
HandleShortcutSave ==
    /\ Running
    /\ allResolved
    /\ StartSave("handleShortcutSave")
    /\ UNCHANGED <<localContent, remoteContent, mergedContent, mergedPath, conflicts,
                   currentConflictIndex, allResolved, isDirty, resolvedReplacements,
                   loads, trip, io, isLoading, parseVars, rebaseVars, historyVars,
                   commitVars, diffVars, disk, exitCode, showWarning>>

\* exitApp(code): the process ends with that code.
ExitWith(code) ==
    /\ Running
    /\ exitCode' = <<code>>
    /\ UNCHANGED <<mergeVars, parseVars, rebaseVars, historyVars, commitVars, diffVars,
                   isSaving, saving, disk, showWarning>>

\* The cancel button.
HandleCancel == ExitWith(1)

\* Escape.
HandleShortcutCancel == ExitWith(1)

\* A writeFile call succeeds: the file holds the text it was called with,
\* save() clears isSaving and isDirty and returns true, and the handler that
\* awaited it calls exitApp(0).
WriteOk ==
    \E i \in 1..Len(saving) :
        /\ Running
        /\ disk' = saving[i].text
        /\ saving' = RemoveAt(saving, i)
        /\ isSaving' = FALSE
        /\ isDirty' = FALSE
        /\ exitCode' = <<0>>
        /\ UNCHANGED <<localContent, remoteContent, mergedContent, mergedPath, conflicts,
                       currentConflictIndex, allResolved, error, resolvedReplacements,
                       loads, trip, io, isLoading, parseVars, rebaseVars, historyVars,
                       commitVars, diffVars, showWarning>>

\* A writeFile call fails: save() stores the error, clears isSaving and
\* returns false; the handler does nothing more.
WriteFail ==
    \E i \in 1..Len(saving) :
        /\ Running
        /\ saving' = RemoveAt(saving, i)
        /\ isSaving' = FALSE
        /\ error' = "IoError"
        /\ UNCHANGED <<localContent, remoteContent, mergedContent, mergedPath, conflicts,
                       currentConflictIndex, allResolved, isDirty, resolvedReplacements,
                       loads, trip, io, isLoading, parseVars, rebaseVars, historyVars,
                       commitVars, diffVars, disk, exitCode, showWarning>>

NextSave ==
    \/ SaveLoad
    \/ SaveAcceptLocal
    \/ SaveRevertConflict
    \/ SaveUpdateMergedContent
    \/ HandleSave
    \/ HandleForceSave
    \/ DismissWarning
    \/ HandleShortcutSave
    \/ HandleCancel
    \/ HandleShortcutCancel
    \/ WriteOk
    \/ WriteFail

SpecSave == Init /\ [][NextSave]_vars

\* ------------------------------------------------------------------------
\* Loads, accepts and reverts on merged files with an empty side
\* ------------------------------------------------------------------------

LocateLoad ==
    \E text \in {DocEmptySide, DocTwo, DocBase} :
        /\ InitMergeWith(text)
        /\ error' = NoError
        /\ UNCHANGED <<sideVars, trip, io>>

NextLocate ==
    \/ LocateLoad
    \/ AcceptLocal
    \/ AcceptRemote
    \/ AcceptBoth
    \/ RevertConflict

SpecLocate == Init /\ [][NextLocate]_vars

\* ------------------------------------------------------------------------
\* useCommitDiffStore and useStagingStore: selectFile
\* ------------------------------------------------------------------------

\* The selectFile calls made in one run.
MaxDiffRequests == 3

\* The files of the commit (or of the working tree) one may select.
DiffFiles == {"a.ts", "b.ts"}

\* What gitCommitDiff (gitDiffFile) answers for a file when it succeeds.
DiffOf(file) == "diff of " \o file

\* selectFile up to its await: the selection and isLoadingDiff are set and the
\* diff is requested.
DiffSelectFile ==
    \E targetFile \in DiffFiles :
        /\ diffRequests < MaxDiffRequests
        /\ selectedFile' = targetFile
        /\ isLoadingDiff' = TRUE
        /\ diffRequests' = diffRequests + 1
        /\ diffPending' = Append(diffPending, [file |-> targetFile, seq |-> diffRequests + 1])
        /\ UNCHANGED <<diffContent, diffLatest, mergeVars, parseVars, rebaseVars,
                       historyVars, saveVars, commitVars>>

\* What the newest selectFile call was answered, once it was answered.
LatestAfter(request, answer) ==
    IF request.seq = diffRequests THEN <<answer>> ELSE diffLatest

\* selectFile after its await: whatever is selected by now, the answer is
\* stored and isLoadingDiff cleared.
DiffArrives(request, answer) ==
    /\ diffContent' = answer
    /\ isLoadingDiff' = FALSE
    /\ diffLatest' = LatestAfter(request, answer)

DiffArrivesOk ==
    \E i \in 1..Len(diffPending) :
        /\ DiffArrives(diffPending[i], DiffOf(diffPending[i].file))
        /\ diffPending' = RemoveAt(diffPending, i)
        /\ UNCHANGED <<selectedFile, diffRequests, mergeVars, parseVars, rebaseVars,
                       historyVars, saveVars, commitVars>>

DiffArrivesFail ==
    \E i \in 1..Len(diffPending) :
        /\ DiffArrives(diffPending[i], NoDiff)
        /\ diffPending' = RemoveAt(diffPending, i)
        /\ UNCHANGED <<selectedFile, diffRequests, mergeVars, parseVars, rebaseVars,
                       historyVars, saveVars, commitVars>>

NextDiff ==
    \/ DiffSelectFile
    \/ DiffArrivesOk
    \/ DiffArrivesFail

SpecDiff == Init /\ [][NextDiff]_vars




\* ------------------------------------------------------------------------
\* RangeLocator of the merged panel (useConflictDecorations): the ranges of
\* the resolved regions, a pure function of the store's state
\* ------------------------------------------------------------------------

\* No range found.
NoRange == [found |-> FALSE, startLine |-> 0, endLine |-> 0, nextSearchFrom |-> 0]

\* FindReplacementLineRange whose nextSearchFrom stays on the matched line.
FindReplacementLineRangeStill(contentLines, replacement, searchFrom) ==
    LET replacementLines == Split(replacement)
        starts == {i \in searchFrom..(Len(contentLines) - Len(replacementLines)) :
                      MatchesAt(contentLines, replacementLines, i)}
    IN  IF Len(replacementLines) = 0 \/ starts = {} THEN NoRange
        ELSE LET i == CHOOSE x \in starts : \A y \in starts : x <= y
             IN  [found |-> TRUE, startLine |-> i + 1,
                  endLine |-> i + Len(replacementLines),
                  nextSearchFrom |-> i]

\* First match of the replacement's lines at or after searchFrom; the range
\* is 1-based and inclusive, nextSearchFrom is the 0-based line after it.
FindReplacementLineRange(contentLines, replacement, searchFrom) ==
    LET replacementLines == Split(replacement)
        starts == {i \in searchFrom..(Len(contentLines) - Len(replacementLines)) :
                      MatchesAt(contentLines, replacementLines, i)}
    IN  IF Len(replacementLines) = 0 \/ starts = {} THEN NoRange
        ELSE LET i == CHOOSE x \in starts : \A y \in starts : x <= y
             IN  [found |-> TRUE, startLine |-> i + 1,
                  endLine |-> i + Len(replacementLines),
                  nextSearchFrom |-> i + Len(replacementLines)]

RECURSIVE LocateFrom(_, _, _, _, _, _)
\* The loop `for (const conflict of conflicts)` from list position k on:
\* acc holds the ranges pushed so far, each with the list position (index)
\* of its region.
LocateFrom(cs, k, content, rr, searchFrom, acc) ==
    IF k > Len(cs) THEN acc
    ELSE LET conflict == cs[k] IN
         IF ~conflict.resolved
         THEN LocateFrom(cs, k + 1, content, rr, searchFrom, acc)
         ELSE IF conflict.id \notin DOMAIN rr \/ Falsy(content)
         THEN LocateFrom(cs, k + 1, content, rr, searchFrom, acc)
         ELSE LET range == FindReplacementLineRange(Split(content), rr[conflict.id],
                                                    searchFrom)
              IN  IF range.found
                  THEN LocateFrom(cs, k + 1, content, rr, range.nextSearchFrom,
                                  Append(acc, [index |-> k,
                                               startLine |-> range.startLine,
                                               endLine |-> range.endLine]))
                  ELSE LocateFrom(cs, k + 1, content, rr, searchFrom, acc)

\* The decoration ranges of the resolved regions, in the order pushed.
ResolvedRanges(cs, content, rr) == LocateFrom(cs, 1, content, rr, 0, <<>>)

\* ------------------------------------------------------------------------
\* RangeLocator of the side panels (useSidePanelConflictDecorations)
\* ------------------------------------------------------------------------

\* `if (contentLines[contentLines.length - 1] === "") contentLines.pop()`
PopTrailingEmpty(contentLines) ==
    IF Len(contentLines) > 0 /\ contentLines[Len(contentLines)] = ""
    THEN SubSeq(contentLines, 1, Len(contentLines) - 1)
    ELSE contentLines

\* conflict.localContent or conflict.remoteContent
SideContent(conflict, side) ==
    IF side = "local" THEN conflict.localContent ELSE conflict.remoteContent

RECURSIVE FindContentFrom(_, _, _, _, _, _)
\* The loop `for (const conflict of conflicts)` from list position k on; each
\* range pushed is kept together with the list position (index) of its region.
FindContentFrom(fileLines, cs, side, k, searchFrom, ranges) ==
    IF k > Len(cs) THEN ranges
    ELSE LET content == SideContent(cs[k], side)
             contentLines == PopTrailingEmpty(Split(content))
             starts == {i \in searchFrom..(Len(fileLines) - Len(contentLines)) :
                           MatchesAt(fileLines, contentLines, i)}
         IN  IF Falsy(content) \/ Len(contentLines) = 0 \/ starts = {}
             THEN FindContentFrom(fileLines, cs, side, k + 1, searchFrom, ranges)
             ELSE LET i == CHOOSE x \in starts : \A y \in starts : x <= y
                  IN  FindContentFrom(fileLines, cs, side, k + 1,
                                      i + Len(contentLines),
                                      Append(ranges, [index |-> k,
                                                      startLine |-> i + 1,
                                                      endLine |-> i + Len(contentLines)]))

FindContentLineRanges(fileLines, cs, side) ==
    FindContentFrom(fileLines, cs, side, 1, 0, <<>>)

\* The decorations of a side panel: none while the file is missing or empty.
SidePanelRanges(fileContent, cs, side) ==
    IF Falsy(fileContent) THEN <<>>
    ELSE FindContentLineRanges(Split(fileContent), cs, side)

\* ========================================================================
\* Properties
\* ========================================================================

RegionIds(cs) == {cs[k].id : k \in 1..Len(cs)}

EveryResolved(cs) == \A k \in 1..Len(cs) : cs[k].resolved

\* C1: a region of conflicts is resolved if and only if resolvedReplacements
\* holds an entry for its id.
C1_ResolvedIffReplacement ==
    \A k \in 1..Len(conflicts) :
        conflicts[k].resolved <=> conflicts[k].id \in DOMAIN resolvedReplacements

SideLines(text) == IF text = EmptyText THEN {<<>>, EmptyText} ELSE {text}

BaseLines(c) ==
    IF c.baseContent = Null THEN {<<>>}
    ELSE {<<BaseMarker>> \o b : b \in SideLines(c.baseContent)}

\* Lines s..e (0-based, inclusive) of the document are the marker block of c.
IsBlockOf(lines, s, e, c) ==
    /\ 0 <= s /\ s < e /\ e < Len(lines)
    /\ IsOpenMarker(lines[s + 1])
    /\ IsCloseMarker(lines[e + 1])
    /\ \E l \in SideLines(c.localContent), b \in BaseLines(c),
          r \in SideLines(c.remoteContent) :
            Slice(lines, s + 1, e) = l \o b \o <<Separator>> \o r

\* The lines an accept inserts for a replacement text.
InsertedLines(replacement) == IF replacement = EmptyText THEN <<>> ELSE replacement

\* C3: without free-form edits, an effective accept on region r replaces
\* exactly the lines of r's marker block as they sit in the document with the
\* replacement lines and keeps every other line, in order.
C3_AcceptReplacesMarkerBlock ==
    [][\A op \in AcceptOps, id \in Ids :
          (~AcceptReturnsEarly(conflicts, mergedContent, id) /\ Accept(op, id)) =>
             LET c == conflicts[FindConflict(conflicts, id)]
                 lines == mergedContent
             IN  \E s \in 0..(Len(lines) - 1), e \in 0..(Len(lines) - 1) :
                    /\ IsBlockOf(lines, s, e, c)
                    /\ mergedContent' =
                          JoinLines(Slice(lines, 0, s)
                                    \o InsertedLines(Replacement(op, c))
                                    \o Slice(lines, e + 1, Len(lines)))]_vars

\* The markers of the text carry the labels LOCAL and REMOTE and no base part.
LocalRemoteLabels(text) ==
    \A k \in 1..Len(text) :
        IsMarker(text[k]) => text[k] \in {OpenLocal, Separator, CloseRemote}

\* C4: after acceptLocal on every region and then revert on every region, in
\* any order, the document equals the text that was loaded.
C4_RoundTrip ==
    ( /\ trip.phase = "reverting"
      /\ LocalRemoteLabels(trip.original)
      /\ RegionIds(conflicts) \subseteq trip.reverted )
        => mergedContent = trip.original

\* C5: a region's resolved flag goes from false to true only in an accept
\* call naming its id and from true to false only in a revert call naming its
\* id; every other call keeps the list and the flags, and a reload carries
\* every resolved region over, still resolved.
C5_FlagChangesOnlyByNamedCall ==
    [][IF loads' = loads
       THEN /\ Len(conflicts') = Len(conflicts)
            /\ \A k \in 1..Len(conflicts) :
                  /\ conflicts'[k].id = conflicts[k].id
                  /\ (~conflicts[k].resolved /\ conflicts'[k].resolved) =>
                        \E op \in AcceptOps :
                           /\ ~AcceptReturnsEarly(conflicts, mergedContent, conflicts[k].id)
                           /\ Accept(op, conflicts[k].id)
                  /\ (conflicts[k].resolved /\ ~conflicts'[k].resolved) =>
                        /\ ~RevertReturnsEarly(conflicts, mergedContent,
                                               resolvedReplacements, conflicts[k].id)
                        /\ Revert(conflicts[k].id)
       ELSE ReloadOk =>
               \A k \in 1..Len(conflicts) :
                  conflicts[k].resolved =>
                     \E m \in 1..Len(conflicts') : conflicts'[m] = conflicts[k]]_vars

\* C5 witness: of two regions the first was resolved by an accept and the
\* second, untouched by that call, is still unresolved.
C5_Witness ==
    /\ Len(conflicts) = 2
    /\ conflicts[1].resolved
    /\ ~conflicts[2].resolved
    /\ conflicts[1].id # conflicts[2].id
    /\ conflicts[1].id \in DOMAIN resolvedReplacements
    /\ isDirty

\* C6: a reload keeps every resolved region in the list, resolved; and a
\* resolved region whose replacement text stands in the document can be
\* reverted: revert on its id acts on that region.
C6_RevertSurvivesReload ==
    /\ [](\A k \in 1..Len(conflicts) :
            LET id == conflicts[k].id IN
            ( /\ conflicts[k].resolved
              /\ ~Falsy(mergedContent)
              /\ id \in DOMAIN resolvedReplacements
              /\ FindRun(Split(mergedContent), Split(resolvedReplacements[id]), 0) # -1 )
            => /\ ~RevertReturnsEarly(conflicts, mergedContent, resolvedReplacements, id)
               /\ MarkerText(conflicts[FindConflict(conflicts, id)]) = MarkerText(conflicts[k]))
    /\ [][ReloadOk =>
             \A k \in 1..Len(conflicts) :
                conflicts[k].resolved =>
                   \E m \in 1..Len(conflicts') : conflicts'[m] = conflicts[k]]_vars

\* C7: the conflicts list is strictly ascending by id, and the regions stand
\* in document order.
C7_IdsAscending ==
    \A k, m \in 1..Len(conflicts) :
        k < m => /\ conflicts[k].id < conflicts[m].id
                 /\ conflicts[k].startLine < conflicts[m].startLine

\* C8: an accept call whose id names no region, or names a region that is
\* already resolved, changes nothing in the store.
C8_AcceptOnResolvedIsNoOp ==
    [][\A op \in AcceptOps, id \in Ids :
          ( /\ \/ id \notin RegionIds(conflicts)
               \/ \E k \in 1..Len(conflicts) :
                     conflicts[k].id = id /\ conflicts[k].resolved
            /\ Accept(op, id) )
          => UNCHANGED storeVars]_vars

\* The lines of a side that acceptBoth keeps: none for an empty side.
KeptLines(text) == IF text = EmptyText THEN <<>> ELSE text

\* C9: an effective acceptBoth records localContent then remoteContent,
\* newline-joined, an empty side left out, and inserts those lines (none when
\* both sides are empty); on the document of Scenario A it yields a, X, Y, b
\* and the trailing newline.
C9_AcceptBothReplacement ==
    [][\A id \in Ids :
          (~AcceptReturnsEarly(conflicts, mergedContent, id) /\ Accept("acceptBoth", id)) =>
             LET c == conflicts[FindConflict(conflicts, id)]
                 ins == KeptLines(c.localContent) \o KeptLines(c.remoteContent)
             IN  /\ id \in DOMAIN resolvedReplacements'
                 /\ resolvedReplacements'[id] = (IF ins = <<>> THEN EmptyText ELSE ins)
                 /\ mergedContent' =
                       JoinLines(Slice(mergedContent, 0, c.startLine) \o ins
                                 \o Slice(mergedContent, c.endLine + 1, Len(mergedContent)))
                 /\ (mergedContent = DocA /\ conflicts = ParseConflicts(DocA).conflicts)
                       => mergedContent' = <<"a", "X", "Y", "b", "">>]_vars

\* C9 witness: acceptBoth has acted on the region of Scenario A.
C9_Witness ==
    /\ mergedContent = <<"a", "X", "Y", "b", "">>
    /\ Len(conflicts) = 1
    /\ conflicts[1].resolved
    /\ 0 \in DOMAIN resolvedReplacements
    /\ resolvedReplacements[0] = <<"X", "Y">>

\* The first 0-based line where the run stands in the document, searched from
\* the first line.
FirstRun(lines, run) ==
    CHOOSE i \in 0..(Len(lines) - Len(run)) :
        /\ Slice(lines, i, i + Len(run)) = run
        /\ \A h \in 0..(i - 1) : Slice(lines, h, h + Len(run)) # run

\* C10: revert on a resolved region with a recorded replacement whose lines
\* stand in the document acts: it replaces the first run of lines equal to the
\* replacement's lines by the two-way block LOCAL / local / ======= / remote /
\* REMOTE, clears the resolved flag and drops the id from resolvedReplacements.
C10_RevertRestoresBlock ==
    /\ [](\A id \in Ids :
            LET k == FindConflict(conflicts, id) IN
            ( /\ mergedContent # Null
              /\ k # 0
              /\ conflicts[k].resolved
              /\ id \in DOMAIN resolvedReplacements
              /\ \E i \in 0..Len(mergedContent) :
                    Slice(mergedContent, i, i + Len(resolvedReplacements[id]))
                       = resolvedReplacements[id] )
            => ~RevertReturnsEarly(conflicts, mergedContent, resolvedReplacements, id))
    /\ [][\A id \in Ids :
            ( /\ ~RevertReturnsEarly(conflicts, mergedContent, resolvedReplacements, id)
              /\ Revert(id) )
            => LET c == conflicts[FindConflict(conflicts, id)]
                   run == resolvedReplacements[id]
                   i == FirstRun(mergedContent, run)
               IN  /\ mergedContent' =
                         Slice(mergedContent, 0, i)
                         \o <<OpenLocal>> \o c.localContent \o <<Separator>>
                         \o c.remoteContent \o <<CloseRemote>>
                         \o Slice(mergedContent, i + Len(run), Len(mergedContent))
                   /\ id \notin DOMAIN resolvedReplacements'
                   /\ \A m \in 1..Len(conflicts') :
                         conflicts'[m].id = id => ~conflicts'[m].resolved]_vars

\* The run of lines stands somewhere in the document.
Appears(run, text) ==
    \E i \in 0..(Len(text) - Len(run)) : Slice(text, i, i + Len(run)) = run

\* A revert on id has nothing to apply: no region carries the id, a region
\* carrying it is not resolved, no replacement is recorded for it, or the
\* replacement's lines stand nowhere in the document.
NothingToRevert(id) ==
    \/ id \notin RegionIds(conflicts)
    \/ \E k \in 1..Len(conflicts) : conflicts[k].id = id /\ ~conflicts[k].resolved
    \/ id \notin DOMAIN resolvedReplacements
    \/ ~Appears(resolvedReplacements[id], mergedContent)

\* C11: a revert call that has nothing to apply changes no state: the call
\* returns early, so the content, the flags and the replacement entries stay.
C11_RevertWithNothingToApplyIsNoOp ==
    /\ [](\A id \in Ids :
            NothingToRevert(id) =>
               RevertReturnsEarly(conflicts, mergedContent, resolvedReplacements, id))
    /\ [][\A id \in Ids :
            (NothingToRevert(id) /\ Revert(id)) => UNCHANGED storeVars]_vars

\* C11 witness (Scenario D): a resolved region with a recorded replacement
\* whose lines a hand edit has removed from the document.
C11_Witness ==
    /\ mergedContent \in EditTexts
    /\ \E k \in 1..Len(conflicts) :
          /\ conflicts[k].resolved
          /\ conflicts[k].id \in DOMAIN resolvedReplacements
          /\ ~Appears(resolvedReplacements[conflicts[k].id], mergedContent)
          /\ NothingToRevert(conflicts[k].id)

\* C12 (Scenario C): of two regions one is resolved and one is not; a reload
\* reads a text that holds the resolved region's replacement lines and the
\* marker block of the unresolved region only.  Then the locator emits, for
\* the carried-over region, a range of the reloaded document whose lines are
\* its replacement's lines.
C12_RangeKeptAfterReload ==
    [][\A k \in 1..Len(conflicts), u \in 1..Len(conflicts) :
          ( /\ ReloadOk
            /\ Len(conflicts) = 2
            /\ conflicts[k].resolved
            /\ ~conflicts[u].resolved
            /\ conflicts[k].id \in DOMAIN resolvedReplacements
            /\ Appears(resolvedReplacements[conflicts[k].id], mergedContent')
            /\ ParseConflicts(mergedContent').totalConflicts = 1
            /\ MarkerText(ParseConflicts(mergedContent').conflicts[1])
                  = MarkerText(conflicts[u]) )
          => LET ranges == ResolvedRanges(conflicts', mergedContent',
                                          resolvedReplacements')
             IN  \E n \in 1..Len(ranges) :
                    /\ conflicts'[ranges[n].index] = conflicts[k]
                    /\ Slice(mergedContent', ranges[n].startLine - 1, ranges[n].endLine)
                          = resolvedReplacements[conflicts[k].id]]_vars

\* C12 witness: after the reload of Scenario C the list holds the freshly
\* parsed unresolved region and the carried-over resolved one, and the
\* locator emits a range for the latter.
C12_Witness ==
    /\ loads = 2
    /\ mergedContent # Null
    /\ ParseConflicts(mergedContent).totalConflicts = 1
    /\ Len(conflicts) = 2
    /\ ~conflicts[1].resolved
    /\ conflicts[2].resolved
    /\ LET ranges == ResolvedRanges(conflicts, mergedContent, resolvedReplacements)
       IN  Len(ranges) = 1 /\ ranges[1].index = 2

\* C13: the ranges the locator emits for resolved regions are, in processing
\* order, strictly increasing and pairwise disjoint: each range lies in the
\* document, holds its region's replacement lines, and starts after the last
\* line of every range emitted before it.
C13_RangesDisjointIncreasing ==
    LET ranges == ResolvedRanges(conflicts, mergedContent, resolvedReplacements)
    IN  /\ \A n \in 1..Len(ranges) :
              /\ 1 <= ranges[n].startLine
              /\ ranges[n].startLine <= ranges[n].endLine
              /\ ranges[n].endLine <= Len(mergedContent)
              /\ conflicts[ranges[n].index].resolved
              /\ Slice(mergedContent, ranges[n].startLine - 1, ranges[n].endLine)
                    = resolvedReplacements[conflicts[ranges[n].index].id]
        /\ \A n, m \in 1..Len(ranges) :
              n < m => /\ ranges[n].index < ranges[m].index
                       /\ ranges[n].endLine < ranges[m].startLine

\* C13 witness (Scenario B): two sequential regions, both resolved, and the
\* locator emits a range for each.
C13_Witness ==
    /\ Len(conflicts) = 2
    /\ conflicts[1].resolved
    /\ conflicts[2].resolved
    /\ conflicts[1].startLine < conflicts[2].startLine
    /\ Len(ResolvedRanges(conflicts, mergedContent, resolvedReplacements)) = 2

Sides == {"local", "remote"}

\* The side-panel range of the region at list position k, as a set: empty or
\* one pair <<startLine, endLine>>.
SideRangeOf(fileContent, cs, side, k) ==
    LET ranges == SidePanelRanges(fileContent, cs, side)
    IN  {<<ranges[n].startLine, ranges[n].endLine>> :
            n \in {x \in 1..Len(ranges) : ranges[x].index = k}}

\* The side files a panel shows in this state.
SideFile(side) == IF side = "local" THEN localContent ELSE remoteContent

\* C14: the side files never change after the load, and the side-panel range
\* of a region is the same before and after any accept, revert or reload that
\* keeps the region in the list; a highlight never disappears or moves.
C14_SidePanelRangesPersist ==
    [][(localContent' = localContent /\ remoteContent' = remoteContent) =>
          \A side \in Sides, k \in 1..Len(conflicts) :
             \A m \in 1..Len(conflicts') :
                ( /\ IF loads' = loads THEN m = k ELSE ReloadOk
                  /\ [conflicts'[m] EXCEPT !.resolved = TRUE]
                        = [conflicts[k] EXCEPT !.resolved = TRUE]
                  /\ loads' # loads => conflicts[k].resolved )
                => SideRangeOf(SideFile(side), conflicts, side, k)
                      \subseteq SideRangeOf(SideFile(side), conflicts', side, m)]_vars

\* The region at 0-based list position i is unresolved.
UnresolvedAt(cs, i) == 0 <= i /\ i < Len(cs) /\ ~cs[i + 1].resolved

\* Some region is unresolved.
SomeUnresolved(cs) == \E i \in 0..(Len(cs) - 1) : UnresolvedAt(cs, i)

\* t is the first unresolved list position strictly greater than cur, or the
\* first unresolved position of all when there is none.
IsNextOf(t, cs, cur) ==
    /\ UnresolvedAt(cs, t)
    /\ IF \E i \in (cur + 1)..(Len(cs) - 1) : UnresolvedAt(cs, i)
       THEN t > cur /\ \A i \in (cur + 1)..(t - 1) : ~UnresolvedAt(cs, i)
       ELSE \A i \in 0..(t - 1) : ~UnresolvedAt(cs, i)

\* C15: while some region is unresolved, next() moves the cursor to the first
\* unresolved region at a list position strictly greater than the cursor's,
\* or to the first unresolved region when there is none, and returns the
\* startLine of that region, which is unresolved.
C15_NextTargetsFirstUnresolvedAfter ==
    /\ [](SomeUnresolved(conflicts) =>
            LET t == NextTarget(conflicts, currentConflictIndex)
            IN  /\ IsNextOf(t, conflicts, currentConflictIndex)
                /\ GoToNextConflictReturn(conflicts, currentConflictIndex)
                      = conflicts[t + 1].startLine)
    /\ [][(GoToNextConflict /\ SomeUnresolved(conflicts)) =>
             IsNextOf(currentConflictIndex', conflicts, currentConflictIndex)]_vars

\* C15 witness: next() has moved the cursor from the first region to the
\* second, both unresolved.
C15_Witness ==
    /\ Len(conflicts) = 2
    /\ currentConflictIndex = 1
    /\ ~conflicts[1].resolved
    /\ ~conflicts[2].resolved

\* t is the last unresolved list position strictly less than cur, or the
\* last unresolved position of all when there is none.
IsPrevOf(t, cs, cur) ==
    /\ UnresolvedAt(cs, t)
    /\ IF \E i \in 0..(cur - 1) : UnresolvedAt(cs, i)
       THEN t < cur /\ \A i \in (t + 1)..(cur - 1) : ~UnresolvedAt(cs, i)
       ELSE \A i \in (t + 1)..(Len(cs) - 1) : ~UnresolvedAt(cs, i)

\* C16: while some region is unresolved, prev() moves the cursor to the last
\* unresolved region at a list position strictly less than the cursor's, or
\* to the last unresolved region when there is none; and from a cursor on an
\* unresolved region, next() followed by prev() ends on that region.
C16_PrevMirrorsNext ==
    /\ [](SomeUnresolved(conflicts) =>
            LET t == PrevTarget(conflicts, currentConflictIndex)
            IN  /\ IsPrevOf(t, conflicts, currentConflictIndex)
                /\ GoToPrevConflictReturn(conflicts, currentConflictIndex)
                      = conflicts[t + 1].startLine)
    /\ [](UnresolvedAt(conflicts, currentConflictIndex) =>
             PrevTarget(conflicts, NextTarget(conflicts, currentConflictIndex))
                = currentConflictIndex)
    /\ [][(GoToPrevConflict /\ SomeUnresolved(conflicts)) =>
             IsPrevOf(currentConflictIndex', conflicts, currentConflictIndex)]_vars

\* C16 witness: the cursor is on the second region, the only unresolved one,
\* where prev() has wrapped to the last unresolved region.
C16_Witness ==
    /\ Len(conflicts) = 2
    /\ currentConflictIndex = 1
    /\ conflicts[1].resolved
    /\ ~conflicts[2].resolved

\* The 0-based lines where the marker block of region c opens in the document.
Places(c) ==
    {st \in 0..(Len(mergedContent) - 1) :
        \E e \in 0..(Len(mergedContent) - 1) : IsBlockOf(mergedContent, st, e, c)}

\* C17: next() and prev() walk the unresolved regions in document order: of
\* two unresolved regions whose marker blocks stand in the document, the one
\* the walk reaches first (the earlier list position) opens earlier in the
\* document.
C17_WalkInDocumentOrder ==
    \A k, m \in 1..Len(conflicts) :
        ( /\ k < m
          /\ ~conflicts[k].resolved
          /\ ~conflicts[m].resolved
          /\ Places(conflicts[k]) # {}
          /\ Places(conflicts[m]) # {} )
        => \E s1 \in Places(conflicts[k]), s2 \in Places(conflicts[m]) : s1 < s2

\* C18: while no region is unresolved (the list is empty or every region is
\* resolved), next() and prev() return the null value and change nothing,
\* the cursor included.
C18_NavigationNoOpWhenNoneUnresolved ==
    /\ [](~SomeUnresolved(conflicts) =>
            /\ GoToNextConflictReturn(conflicts, currentConflictIndex) = NoLine
            /\ GoToPrevConflictReturn(conflicts, currentConflictIndex) = NoLine)
    /\ [][(~SomeUnresolved(conflicts) /\ (GoToNextConflict \/ GoToPrevConflict))
             => UNCHANGED vars]_vars

\* C18 witness: every region is resolved and the cursor rests on the second
\* one, where an earlier next() left it.
C18_Witness ==
    /\ Len(conflicts) = 2
    /\ conflicts[1].resolved
    /\ conflicts[2].resolved
    /\ currentConflictIndex = 1

\* C19: updateMergedContent replaces the document text and marks it dirty;
\* the conflict list with every flag and line span, resolvedReplacements,
\* allResolved, the cursor and all the rest stay as they were.
C19_UpdateContentFrame ==
    [][UpdateMergedContent
          => /\ mergedContent' \in EditTexts
             /\ isDirty'
             /\ UNCHANGED <<conflicts, resolvedReplacements, allResolved,
                            currentConflictIndex, mergedPath, error,
                            localContent, remoteContent>>]_vars

\* C19 witness: the text was typed over while a region was unresolved; the
\* list still holds the region although the text has no marker block.
C19_Witness ==
    /\ mergedContent \in EditTexts
    /\ isDirty
    /\ Len(conflicts) > 0
    /\ ~conflicts[1].resolved
    /\ ~allResolved
    /\ ParseConflicts(mergedContent).totalConflicts = 0

\* C20: latest-request-wins: the result of a load or reload is applied only
\* if no request issued after it has had its result applied already.
C20_LatestRequestWins ==
    [][\A r \in io.pending :
          (io'.applied = r.n /\ io'.pending = io.pending \ {r}) => r.n > io.applied]_vars

\* A step of a failed load, reload, save or assistant launch.
FailedIoStep ==
    \/ InitMergeReadFail
    \/ InitMergeParseFail
    \/ ReloadReadFail
    \/ ReloadParseFail
    \/ SaveFail
    \/ OpenCodexResolveFail

\* A step of an accept, a revert, a free-form edit or a cursor move.
InMemoryStep ==
    \/ \E op \in AcceptOps, id \in Ids : Accept(op, id)
    \/ \E id \in Ids : Revert(id)
    \/ UpdateMergedContent
    \/ GoToNextConflict
    \/ GoToPrevConflict

\* C21: an accept, a revert, a free-form edit and a cursor move leave the
\* error field as it was, for every id; the field takes an error value only
\* in a step of a failed load, reload, save or assistant launch.
C21_InMemoryCallsNeverFail ==
    [][/\ InMemoryStep => error' = error
       /\ (error' # error /\ error' # NoError) => FailedIoStep]_vars

\* C21 witness: accepts were made after a save had failed; the error of the
\* save is still the one recorded.
C21_Witness ==
    /\ error = "IoError"
    /\ isDirty
    /\ Len(conflicts) = 2
    /\ conflicts[1].resolved
    /\ conflicts[2].resolved

\* The fields a failed load must not touch.
LoadedFields ==
    <<localContent, remoteContent, mergedContent, mergedPath, conflicts,
      resolvedReplacements, allResolved, currentConflictIndex, isDirty>>

\* C22: when the read or the parse of an initMerge or of a reload fails, the
\* error is recorded, isLoading is false again, and the document, the region
\* list, the replacements, allResolved and the cursor are what they were.
C22_FailedLoadKeepsState ==
    [][(InitMergeFails \/ ReloadFails \/ InitMergeReadFail \/ InitMergeParseFail
            \/ ReloadReadFail \/ ReloadParseFail)
        => /\ error' # NoError
           /\ isLoading' = FALSE
           /\ LoadedFields' = LoadedFields]_vars

\* C22 witness: a reload has failed on a document with a resolved region; no
\* call is pending, the error is recorded and the regions are still there.
C22_Witness ==
    /\ error = "ParseError"
    /\ ~isLoading
    /\ io.issued = 3
    /\ io.pending = {}
    /\ Len(conflicts) = 2
    /\ conflicts[1].resolved

\* The text has been parsed.
Parsed == parseOutput # NotParsed

\* No line of the text is a marker line.
NoMarkerLines(text) == \A i \in 1..Len(text) : ~IsMarker(text[i])

\* C23: a text with no marker line parses, without error, to an empty list
\* with hasConflicts false and totalConflicts 0; for every text that parses,
\* totalConflicts is the length of the list and hasConflicts says whether the
\* list is non-empty.
C23_ParseCounts ==
    Parsed =>
        /\ NoMarkerLines(parseInput) =>
              /\ parseOutput.ok
              /\ parseOutput.conflicts = <<>>
              /\ ~parseOutput.hasConflicts
              /\ parseOutput.totalConflicts = 0
        /\ parseOutput.ok =>
              /\ parseOutput.totalConflicts = Len(parseOutput.conflicts)
              /\ parseOutput.hasConflicts = (parseOutput.conflicts # <<>>)

\* C23 witness: a text of several plain lines has been parsed.
C23_Witness ==
    /\ Parsed
    /\ Len(parseInput) = 3
    /\ NoMarkerLines(parseInput)
    /\ parseOutput.totalConflicts = 0

\* Line o (1-based) opens a block that no closing marker has ended before
\* line i.
OpenUntil(text, o, i) ==
    /\ o < i
    /\ IsOpenMarker(text[o])
    /\ \A j \in (o + 1)..(i - 1) : ~IsCloseMarker(text[j])

\* Some opening marker has no closing marker after it.
Unterminated(text) ==
    \E o \in 1..Len(text) : OpenUntil(text, o, Len(text) + 1)

\* Some marker is met inside an open block where the block's grammar has no
\* place for it: a second opening marker, a base marker or separator after
\* the separator, a second base marker, a closing marker before the separator.
MarkerInsideOpenBlock(text) ==
    \E o, i \in 1..Len(text) :
        /\ OpenUntil(text, o, i)
        /\ \/ IsOpenMarker(text[i])
           \/ /\ IsBaseMarker(text[i]) \/ IsSeparator(text[i])
              /\ \E j \in (o + 1)..(i - 1) : IsSeparator(text[j])
           \/ /\ IsBaseMarker(text[i])
              /\ \E j \in (o + 1)..(i - 1) : IsBaseMarker(text[j])
           \/ /\ IsCloseMarker(text[i])
              /\ \A j \in (o + 1)..(i - 1) : ~IsSeparator(text[j])

\* C24: a text with an unterminated block, or with a marker met while a block
\* is open, gives a ParseError and no region list, whatever precedes it.
C24_MalformedIsError ==
    (Parsed /\ (Unterminated(parseInput) \/ MarkerInsideOpenBlock(parseInput)))
        => /\ ~parseOutput.ok
           /\ parseOutput.conflicts = <<>>

\* C24 witness: a well-formed block followed by an opening marker alone.
C24_Witness ==
    /\ parseInput = <<OpenLocal, Separator, CloseRemote, OpenLocal>>
    /\ Parsed
    /\ ~parseOutput.ok
    /\ parseOutput.conflicts = <<>>

\* undo() with an empty past: null, nothing changed.
UndoOnEmptyPast ==
    past = <<>> => (returned'.isNull /\ UNCHANGED <<past, future>>)

\* undo() with a non-empty past: the newest snapshot goes to the front of
\* future.
UndoMovesNewest ==
    past # <<>> => (past' = Front(past) /\ future' = <<Last(past)>> \o future)

C27_RedoUndoesUndo ==
    [][HistoryRedo =>
        /\ future = <<>> => (returned'.isNull /\ UNCHANGED <<past, future>>)
        /\ (lastCall.op = "undo" /\ lastCall.past # <<>>) =>
              /\ returned' = Returned(Last(lastCall.past).entries)
              /\ past' = lastCall.past
              /\ future' = lastCall.future]_vars

\* C27 witness: a redo right after the second of two undos has put back a
\* past of one snapshot and a future of one snapshot.
C27_Witness ==
    /\ lastCall.op = "redo"
    /\ Len(past) = 1
    /\ Len(future) = 1
    /\ lastCall.past = <<>>
    /\ Len(lastCall.future) = 2
    /\ ~returned.isNull

\* C28: pushSnapshot appends one snapshot as the newest element of past and
\* empties future, whatever future held; canRedo() is false right after.
C28_PushAppendsAndClearsFuture ==
    /\ [][HistoryPush =>
            /\ \E e \in HistoryInputs : past' = Append(past, Snapshot(e))
            /\ future' = <<>>
            /\ ~CanRedo']_vars
    /\ [](lastCall.op = "pushSnapshot" => ~CanRedo)

\* C28 witness: a push was made while future held two snapshots.
C28_Witness ==
    /\ lastCall.op = "pushSnapshot"
    /\ Len(lastCall.future) = 2
    /\ future = <<>>
    /\ Len(past) = Len(lastCall.past) + 1

\* C29: past never holds more than maxHistory (50) snapshots, and a push made
\* with past full drops the oldest snapshot.
C29_PastWithinLimit ==
    /\ [](Len(past) <= MAX_HISTORY)
    /\ [][(HistoryPushToLimit /\ Len(past) = MAX_HISTORY) =>
            /\ Front(past') = Tail(past)
            /\ Last(past') = Snapshot(EditedList)]_vars

\* C29 witness: a push was made with past full and its oldest snapshot, the
\* list as loaded, is gone.
C29_Witness ==
    /\ lastCall.op = "pushSnapshot"
    /\ Len(lastCall.past) = MAX_HISTORY
    /\ lastCall.past[1].entries = LoadedList
    /\ Len(past) = MAX_HISTORY
    /\ past[1].entries = EditedList

\* C25: when an undo has changed the entries, redo is available and its
\* snapshot holds the entries as they were before the undo.
C25_RedoAvailableAfterUndo ==
    [][(HandleUndo /\ entries' # entries) =>
          /\ CanRedo'
          /\ Head(future').entries = entries]_vars

\* The position (1-based) of the selected entry, 0 when there is none.
SelectedPos == FindIndex(entries, selectedEntryId) + 1

\* Some entry before position pos has a command other than drop.
HasTargetBefore(pos) == \E j \in 1..(pos - 1) : entries[j].command # "drop"

\* C30: a key request for squash or fixup on the selected entry sets that
\* command when some earlier entry is not drop, and otherwise leaves every
\* entry's command as it was.
C30_SquashNeedsTarget ==
    /\ [][\A command \in {"squash", "fixup"} :
            (KeyDownFor(command) /\ UNCHANGED <<selectedEntryId, parseVars, mergeVars, appVars>>) =>
                IF SelectedPos > 1 /\ HasTargetBefore(SelectedPos)
                THEN /\ entries'[SelectedPos].command = command
                     /\ \A i \in 1..Len(entries) :
                            i # SelectedPos => entries'[i] = entries[i]
                ELSE entries' = entries]_vars
    /\ [](\A id \in EntryIds :
            CanSquashOrFixupEntry(entries, id)
                <=> \E i \in 1..Len(entries) :
                        /\ entries[i].id = id
                        /\ \E j \in 1..(i - 1) : entries[j].command # "drop")

\* C30 witness: the third entry was made a squash while the first is drop and
\* the second is not.
C30_Witness ==
    /\ Len(entries) = 3
    /\ entries[1].command = "drop"
    /\ entries[2].command = "pick"
    /\ entries[3].command = "squash"
    /\ selectedEntryId = entries[3].id

\* C31: in the commit store isDirty is true exactly when the subject differs
\* from the subject as parsed or the body differs from the body as parsed.
C31_CommitDirtyIffChanged ==
    commitIsDirty <=> (subject # originalSubject \/ body # originalBody)

\* C31 witness: a message was parsed, its subject was changed and changed
\* back while the body stays changed.
C31_Witness ==
    /\ originalSubject = "fix"
    /\ subject = "fix"
    /\ originalBody = "why"
    /\ body = ""
    /\ commitIsDirty
    /\ commitPending = {}

\* C32: with accepts and reverts only, the stored startLine and endLine of
\* every unresolved region are the lines of its opening and closing markers
\* in the document as it stands.
C32_StoredSpanIsMarkerBlock ==
    \A k \in 1..Len(conflicts) :
        ~conflicts[k].resolved =>
            /\ conflicts[k].endLine < Len(mergedContent)
            /\ IsBlockOf(mergedContent, conflicts[k].startLine, conflicts[k].endLine,
                         conflicts[k])

\* C33: with loads, accepts and reverts only, whenever allResolved is true
\* the document holds no conflict marker line (opening, base, separator or
\* closing).
C33_AllResolvedMeansNoMarkers ==
    (allResolved /\ mergedContent # Null) => NoMarkerLines(mergedContent)

\* C34: the merge tool exits with code 0 only in the step in which a write
\* of the merged file succeeded; a write is started only while allResolved
\* is true or from the warning's save button; and an exit with code 1 neither
\* writes the file nor starts a write.
C34_ExitZeroOnlyAfterWrite ==
    [][/\ (exitCode = <<>> /\ exitCode' = <<0>>) =>
             \E i \in 1..Len(saving) :
                 /\ saving' = RemoveAt(saving, i)
                 /\ disk' = saving[i].text
       /\ Len(saving') > Len(saving) =>
             \/ allResolved
             \/ showWarning /\ Last(saving').via = "handleForceSave"
       /\ (exitCode = <<>> /\ exitCode' = <<1>>) => UNCHANGED <<disk, saving>>]_vars

\* The tool exited with code 0 after the warning was confirmed: regions are
\* unresolved and the file holds the document.
C34_Witness ==
    /\ exitCode = <<0>>
    /\ ~allResolved
    /\ disk = mergedContent

\* C35: the merged panel's locator emits no range for a region resolved
\* with the empty replacement (no line was inserted for it), so such a region
\* claims no line of the document and does not move the search cursor.
C35_EmptyReplacementGetsNoRange ==
    LET ranges == ResolvedRanges(conflicts, mergedContent, resolvedReplacements)
    IN  \A n \in 1..Len(ranges) :
            resolvedReplacements[conflicts[ranges[n].index].id] # EmptyText

\* C36: an undo() called while canUndo() is true returns an entries list,
\* not null; and an undo() that returns null leaves past and future as they
\* were.
C36_CanUndoMeansUndoReturnsEntries ==
    [][HistoryUndo =>
        /\ CanUndo => ~returned'.isNull
        /\ returned'.isNull => UNCHANGED <<past, future>>]_vars

\* C37: once no diff request is in flight, diffContent is what the request
\* made for the currently selected file, the newest one, was answered.
C37_DiffIsOfSelectedFile ==
    (diffPending = <<>> /\ diffRequests > 0) => diffLatest = <<diffContent>>

\* C38: whenever isDirty is false and no save is in flight, the document in
\* memory is the text last read from or written to the merged file.
C38_CleanMeansOnDisk ==
    (~isDirty /\ saving = <<>> /\ mergedContent # Null) => mergedContent = disk

====
